---------------------------- MODULE Spec2Model ----------------------------
(***************************************************************************)
(* A model of the rstark core: prime-field arithmetic (field.rs), the      *)
(* Merkle tree (tree.rs), dense polynomials (polynomial.rs) and the FRI    *)
(* prover and verifier (fri.rs).                                           *)
(*                                                                         *)
(* Every operation of the code is an operator computed the way the code    *)
(* computes it; a panic is a result with ok = FALSE and the panic message  *)
(* in err.  Each subsystem has a specification of its own (SpecField,      *)
(* SpecTree, SpecPoly, SpecFri) whose Init draws the inputs from bounded   *)
(* sets and whose actions apply the operations; Spec is their union.       *)
(***************************************************************************)
EXTENDS Integers, Sequences, FiniteSets, TLC

VARIABLES fld, mt, pl, fri, channel, prover, verifier

vars == <<fld, mt, pl, fri, channel, prover, verifier>>

\* The value of a subsystem's variable while another subsystem is exercised.
Idle == [op |-> "idle"]

(***************************************************************************)
(* Bounds of the model.                                                    *)
(***************************************************************************)
\* Field moduli are the primes up to MaxPrime.
MaxPrime == 13

\* Leaf vectors hold up to MaxLeaves leaves.
MaxLeaves == 5

\* The long leaf vectors have up to 2^MaxLogLeaves leaves.
MaxLogLeaves == 25

\* A dividend has up to MaxDividendLen coefficients, a divisor up to
\* MaxDivisorLen.
MaxDividendLen == 3

MaxDivisorLen == 2

\* Lagrange interpolation is given up to MaxPoints points.
MaxPoints == 3

\* A FRI domain has up to 2^MaxLogLen points.
MaxLogLen == 5

\* A FRI instance runs up to MaxTests colinearity tests a round.
MaxTests == 2

\* The polynomials proved have coefficients up to MaxCoef.
MaxCoef == 1

\* The hasher of a channel starts in a state up to MaxKey.
MaxKey == 1

\* sample_indices is applied to seeds up to MaxSeed, sizes and reduced sizes
\* up to MaxSize and counts up to MaxCount.
MaxSeed == 3

MaxSize == 8

MaxCount == 4

(***************************************************************************)
(* Results of operations that may panic.                                   *)
(***************************************************************************)
Ok(v) == [ok |-> TRUE, val |-> v, err |-> ""]

Panic(msg) == [ok |-> FALSE, val |-> 0, err |-> msg]

\* The message of num-bigint's panic on a division (or remainder) by zero.
BigIntDivZero == "attempt to divide by zero"

\* The message of num-bigint's panic on modpow with a negative exponent.
BigIntNegExp == "negative exponentiation is not supported!"

(***************************************************************************)
(* field.rs                                                                *)
(***************************************************************************)
\* BigInt '/' truncates toward zero; TLA+ \div floors.  d # 0.
TruncDiv(n, d) ==
  IF (n >= 0 /\ d > 0) \/ (n <= 0 /\ d < 0)
    THEN (IF n >= 0 THEN n ELSE -n) \div (IF d >= 0 THEN d ELSE -d)
    ELSE -((IF n >= 0 THEN n ELSE -n) \div (IF d >= 0 THEN d ELSE -d))

\* BigInt '%' has the sign of the dividend.  d # 0.
TruncRem(n, d) == n - d * TruncDiv(n, d)

\* Field::modd, the loop of lines 39-41: p is added while v is negative.  The
\* loop ends with the least v + k * p that is >= 0, which for p > 0 is the
\* floored remainder.
moddLoop(p, v) == IF v < 0 THEN v % p ELSE v

\* Field::modd.  The second branch is taken for v > p only, so v = p is
\* returned as it is.
modd(p, v) ==
  IF v < 0 THEN moddLoop(p, v)
  ELSE IF v > p THEN TruncRem(v, p)
  ELSE v

\* Field::add
add(p, v1, v2) == modd(p, v1 + v2)

\* Field::mul
mul(p, v1, v2) == modd(p, v1 * v2)

\* Field::sub
sub(p, v1, v2) == modd(p, v1 - v2)

\* BigInt::modpow for a base b >= 0, an exponent e >= 0 and a modulus p > 0.
RECURSIVE modpow(_, _, _)
modpow(b, e, p) ==
  IF e = 0 THEN 1 % p
  ELSE LET h == modpow(b, e \div 2, p)
       IN  IF e % 2 = 0 THEN (h * h) % p ELSE (((h * h) % p) * (b % p)) % p

\* Field::exp as a result: modpow panics on a negative exponent.
expR(p, v, e) ==
  IF e < 0 THEN Panic(BigIntNegExp) ELSE Ok(modpow(modd(p, v), e, p))

\* Field::exp for an exponent the caller keeps >= 0.
exp(p, v, e) == modpow(modd(p, v), e, p)

\* A generator that forgets the divisibility test.
generatorNoDivisorCheck(p, g, size) ==
  IF size >= p THEN Panic("requested subgroup is larger than field")
  ELSE IF size = 0 THEN Panic(BigIntDivZero)
  ELSE expR(p, g, TruncDiv(p - 1, size))

\* Field::generator
generator(p, g, size) ==
  IF size >= p THEN Panic("requested subgroup is larger than field")
  ELSE IF size = 0 THEN Panic(BigIntDivZero)
  ELSE LET numer == p - 1
           e     == TruncDiv(numer, size)
       IN  IF e * size # numer
             THEN Panic("subgroup is not a divisor of field")
             ELSE expR(p, g, e)

\* Field::inv, the loop of lines 88-96.  The division by f panics when f = 0.
RECURSIVE invLoop(_, _, _, _, _)
invLoop(p, val, f, x, y) ==
  IF val > 1
    THEN IF f = 0 THEN Panic(BigIntDivZero)
         ELSE LET q == TruncDiv(val, f)
              IN  invLoop(p, f, TruncRem(val, f), y, x - q * y)
    ELSE Ok(modd(p, x))

\* An inverse that forgets the zero test of lines 80-82.
invNoZeroCheck(p, v) == invLoop(p, modd(p, v), p, 1, 0)

\* Field::inv
inv(p, v) ==
  LET val == modd(p, v)
  IN  IF val = 0 THEN Panic("divide by zero") ELSE invLoop(p, val, p, 1, 0)

(***************************************************************************)
(* tree.rs                                                                 *)
(*                                                                         *)
(* A BigUint handled by the tree is a leaf value or a hash.  BLAKE3 is     *)
(* taken to be collision-free: the hash of (a, b) is the pair itself, and  *)
(* the integer n is the one-element tuple <<n>>, so that a hash differs    *)
(* from every integer of the model and from every other hash, while a      *)
(* caller stays free to hand in a hash as a leaf.                          *)
(***************************************************************************)
\* BigUint::from(n)
U(n) == <<n>>

\* Tree::hash
hash(leaf1, leaf2) == <<leaf1, leaf2>>

\* The message of the panic of an index beyond a Vec's or a slice's end.
OutOfBounds == "index out of bounds"

\* The number of bits of n >= 1.
RECURSIVE BitLen(_)
BitLen(n) == IF n <= 1 THEN 1 ELSE 1 + BitLen(n \div 2)

\* The significant bits of an f32.
F32MantissaBits == 24

\* usize as f32: an integer of more than 24 bits is rounded to 24 significant
\* bits, to the nearest, ties to the even mantissa.
AsF32(n) ==
  IF n < 2^F32MantissaBits THEN n
  ELSE LET q  == 2^(BitLen(n) - F32MantissaBits)
           m  == n \div q
           r  == n - m * q
       IN  IF 2 * r < q THEN m * q
           ELSE IF 2 * r > q THEN (m + 1) * q
           ELSE IF m % 2 = 0 THEN m * q
           ELSE (m + 1) * q

\* f32::log2 followed by ceil, of an integral x >= 1: the least k with
\* 2^k >= x.
RECURSIVE CeilLog2(_)
CeilLog2(x) == IF x <= 1 THEN 0 ELSE 1 + CeilLog2((x + 1) \div 2)

\* Line 18: (len as f32).log2().ceil() as usize; log2(0) is -inf, which the
\* cast to usize saturates to 0.
LevelCount(len) == IF len = 0 THEN 0 ELSE CeilLog2(AsF32(len))

\* Lines 22-24: an odd level is padded with zero.
Padded(level) == IF Len(level) % 2 = 1 THEN Append(level, U(0)) ELSE level

\* Lines 25-27: the hashes of the pairs of an even level.
HashPairs(level) ==
  [j \in 1..(Len(level) \div 2) |-> hash(level[2 * j - 1], level[2 * j])]

\* Tree::build, the loop of lines 20-29 from its i-th iteration on: levels
\* holds i + 1 levels, the last of them not yet padded.
RECURSIVE buildLoop(_, _, _)
buildLoop(levels, i, level_count) ==
  IF i >= level_count THEN levels
  ELSE LET cur == Padded(levels[i + 1])
       IN  buildLoop(Append([levels EXCEPT ![i + 1] = cur], HashPairs(cur)),
                     i + 1, level_count)

\* Tree::build
build(leaves) == buildLoop(<<leaves>>, 0, LevelCount(Len(leaves)))

\* Tree::commit
commit(leaves) ==
  LET built(levels) ==
        IF Len(levels[Len(levels)]) = 0 THEN Panic(OutOfBounds)
        ELSE Ok(levels[Len(levels)][1])
  IN  built(build(leaves))

\* Tree::open, the loop of lines 48-65 from its i-th iteration on.
RECURSIVE openLoop(_, _, _, _)
openLoop(tree, index, i, path) ==
  IF i >= Len(tree) - 1 THEN Ok(path)
  ELSE LET sibling_index == IF index % 2 = 0 THEN index + 1 ELSE index - 1
           level == tree[i + 1]
       IN  IF sibling_index >= Len(level) \/ index >= Len(level)
             THEN Panic(OutOfBounds)
             ELSE LET sibling == level[sibling_index + 1]
                      node    == level[index + 1]
                  IN  openLoop(tree, index \div 2, i + 1,
                               IF index % 2 = 0
                                 THEN path \o <<node, sibling>>
                                 ELSE path \o <<sibling, node>>)

\* Tree::open: the path and the root.
open(index, leaves) ==
  LET built(tree) ==
        LET walked(r) ==
              IF ~r.ok THEN r
              ELSE IF Len(tree[Len(tree)]) = 0 THEN Panic(OutOfBounds)
              ELSE Ok([path |-> r.val, root |-> tree[Len(tree)][1]])
        IN  walked(openLoop(tree, index, 0, <<>>))
  IN  IF index > Len(leaves)
        THEN Panic("index is greater than leaves length")
        ELSE built(build(leaves))

\* Tree::verify, the loop of lines 72-79 over the chunks of two of path,
\* from chunk c on (the last chunk of a path of odd length has one element).
RECURSIVE verifyLoop(_, _, _, _)
verifyLoop(path, index, c, calculated_root) ==
  IF 2 * c >= Len(path) THEN Ok(calculated_root)
  ELSE LET chunkLen == IF Len(path) - 2 * c >= 2 THEN 2 ELSE 1
           node_index == index % 2
       IN  IF node_index >= chunkLen THEN Panic(OutOfBounds)
           ELSE IF path[2 * c + node_index + 1] # calculated_root
             THEN Panic("Invalid intermediate root")
           ELSE IF chunkLen < 2 THEN Panic(OutOfBounds)
           ELSE verifyLoop(path, index \div 2, c + 1,
                           hash(path[2 * c + 1], path[2 * c + 2]))

\* A verify that never compares the recomputed root with the root.
verifyNoRootCheck(root, index, path, leaf) ==
  LET walked(r) == IF ~r.ok THEN r ELSE Ok(TRUE)
  IN  walked(verifyLoop(path, index, 0, leaf))

\* Tree::verify: true, or a panic.
verify(root, index, path, leaf) ==
  LET walked(r) ==
        IF ~r.ok THEN r
        ELSE IF r.val # root THEN Panic("root mismatch")
        ELSE Ok(TRUE)
  IN  walked(verifyLoop(path, index, 0, leaf))

(***************************************************************************)
(* tree.rs on a long leaf vector.                                          *)
(*                                                                         *)
(* The vector is U(1), U(2), ..., U(len): its leaves differ from each      *)
(* other and from the padding U(0), so, the hash being free of collisions, *)
(* two nodes of one level are equal only if they are the same node.  A     *)
(* node is then held as its place <<level, position>>, a level as its      *)
(* length, and the code is followed on places and lengths.                 *)
(***************************************************************************)
\* Tree::hash of two nodes: the parent of a left node and its right sibling;
\* any other pair hashes to a value that is no node of the tree.
hashAt(leaf1, leaf2) ==
  IF leaf1[1] = leaf2[1] /\ leaf1[2] % 2 = 0 /\ leaf2[2] = leaf1[2] + 1
    THEN <<leaf1[1] + 1, leaf1[2] \div 2>>
    ELSE <<-1, 0>>

\* Tree::build, the loop of lines 20-29 on the lengths of the levels.
RECURSIVE buildLoopAt(_, _, _)
buildLoopAt(levels, i, level_count) ==
  IF i >= level_count THEN levels
  ELSE LET cur == IF levels[i + 1] % 2 = 1 THEN levels[i + 1] + 1
                  ELSE levels[i + 1]
       IN  buildLoopAt(Append([levels EXCEPT ![i + 1] = cur], cur \div 2),
                       i + 1, level_count)

\* Tree::build: the lengths of the levels of the tree of len leaves.
buildAt(len) == buildLoopAt(<<len>>, 0, LevelCount(len))

\* Tree::open, the loop of lines 48-65 from its i-th iteration on.
RECURSIVE openLoopAt(_, _, _, _)
openLoopAt(tree, index, i, path) ==
  IF i >= Len(tree) - 1 THEN Ok(path)
  ELSE LET sibling_index == IF index % 2 = 0 THEN index + 1 ELSE index - 1
           level == tree[i + 1]
       IN  IF sibling_index >= level \/ index >= level
             THEN Panic(OutOfBounds)
             ELSE LET sibling == <<i, sibling_index>>
                      node    == <<i, index>>
                  IN  openLoopAt(tree, index \div 2, i + 1,
                                 IF index % 2 = 0
                                   THEN path \o <<node, sibling>>
                                   ELSE path \o <<sibling, node>>)

\* Tree::open: the path and the root, the first node of the last level.
openAt(index, len) ==
  LET built(tree) ==
        LET walked(r) ==
              IF ~r.ok THEN r
              ELSE IF tree[Len(tree)] = 0 THEN Panic(OutOfBounds)
              ELSE Ok([path |-> r.val, root |-> <<Len(tree) - 1, 0>>])
        IN  walked(openLoopAt(tree, index, 0, <<>>))
  IN  IF index > len
        THEN Panic("index is greater than leaves length")
        ELSE built(buildAt(len))

\* Tree::verify, the loop of lines 72-79 from chunk c on.
RECURSIVE verifyLoopAt(_, _, _, _)
verifyLoopAt(path, index, c, calculated_root) ==
  IF 2 * c >= Len(path) THEN Ok(calculated_root)
  ELSE LET chunkLen == IF Len(path) - 2 * c >= 2 THEN 2 ELSE 1
           node_index == index % 2
       IN  IF node_index >= chunkLen THEN Panic(OutOfBounds)
           ELSE IF path[2 * c + node_index + 1] # calculated_root
             THEN Panic("Invalid intermediate root")
           ELSE IF chunkLen < 2 THEN Panic(OutOfBounds)
           ELSE verifyLoopAt(path, index \div 2, c + 1,
                             hashAt(path[2 * c + 1], path[2 * c + 2]))

\* Tree::verify: true, or a panic.
verifyAt(root, index, path, leaf) ==
  LET walked(r) ==
        IF ~r.ok THEN r
        ELSE IF r.val # root THEN Panic("root mismatch")
        ELSE Ok(TRUE)
  IN  walked(verifyLoopAt(path, index, 0, leaf))

(***************************************************************************)
(* polynomial.rs                                                           *)
(*                                                                         *)
(* A polynomial is its coefficient vector: coefs[i + 1] here is coefs[i]   *)
(* of the code, the coefficient of x^i.  The code compares a coefficient   *)
(* with BigInt zero, so a coefficient p (see modd) counts as nonzero.      *)
(***************************************************************************)
\* Field::neg is not in field.rs as given; it returns the canonical residue
\* of -v, here by modd (the division test of polynomial.rs needs neg(0) = 0).
neg(p, v) == modd(p, -v)

\* Field::bigint(&self, i32) is not in field.rs as given; the tests compare
\* its value with canonical residues, so it reduces its argument.
fbigint(p, val) == modd(p, val)

\* Vec::resize(n, zero)
resize(coefs, n) ==
  [i \in 1..n |-> IF i <= Len(coefs) THEN coefs[i] ELSE 0]

\* The greatest index in 1..n at which coefs is nonzero, 0 when there is none.
RECURSIVE lastNonzero(_, _)
lastNonzero(coefs, n) ==
  IF n = 0 THEN 0
  ELSE IF coefs[n] # 0 THEN n
  ELSE lastNonzero(coefs, n - 1)

\* Polynomial::degree
degree(coefs) ==
  LET k == lastNonzero(coefs, Len(coefs)) IN IF k = 0 THEN 0 ELSE k - 1

\* Polynomial::is_zero
is_zero(coefs) == \A i \in 1..Len(coefs) : coefs[i] = 0

\* Polynomial::term
term(p, coefs, coef, e) ==
  LET c == IF Len(coefs) < e + 1 THEN resize(coefs, e + 1) ELSE coefs
  IN  [c EXCEPT ![e + 1] = add(p, c[e + 1], coef)]

\* Polynomial::add
padd(p, coefs, poly) ==
  [i \in 1..(IF Len(coefs) >= Len(poly) THEN Len(coefs) ELSE Len(poly)) |->
     IF i <= Len(coefs) /\ i <= Len(poly) THEN add(p, coefs[i], poly[i])
     ELSE IF i <= Len(coefs) THEN coefs[i]
     ELSE poly[i]]

\* Polynomial::sub
psub(p, coefs, poly) ==
  [i \in 1..(IF Len(coefs) >= Len(poly) THEN Len(coefs) ELSE Len(poly)) |->
     IF i <= Len(coefs) /\ i <= Len(poly) THEN sub(p, coefs[i], poly[i])
     ELSE IF i <= Len(coefs) THEN coefs[i]
     ELSE neg(p, poly[i])]

\* Polynomial::trim, the loop of lines 161-166 over the range len..0 from i
\* on: the range of the code runs upward from coefs.len() to 0.
RECURSIVE trimLoop(_, _, _, _)
trimLoop(coefs, i, end, new_len) ==
  IF i >= end THEN new_len
  ELSE IF coefs[i + 1] # 0 THEN new_len
  ELSE trimLoop(coefs, i + 1, end, i)

\* Polynomial::trim
trim(coefs) == resize(coefs, trimLoop(coefs, Len(coefs), 0, Len(coefs)))

\* Polynomial::mul, lines 107-114, for one exponent e: the products
\* coefs[e - i] * poly[i] are added to out[e] in the order of i, from i on.
RECURSIVE mulAcc(_, _, _, _, _, _)
mulAcc(p, coefs, poly, e, i, acc) ==
  IF i >= Len(poly) \/ i > e THEN acc
  ELSE mulAcc(p, coefs, poly, e, i + 1,
              IF e - i < Len(coefs)
                THEN add(p, acc, mul(p, coefs[e - i + 1], poly[i + 1]))
                ELSE acc)

\* Polynomial::mul
pmul(p, coefs, poly) ==
  trim([k \in 1..(Len(coefs) + Len(poly)) |->
          mulAcc(p, coefs, poly, k - 1, 0, 0)])

\* Polynomial::mul_scalar
mul_scalar(p, coefs, v) == [i \in 1..Len(coefs) |-> mul(p, v, coefs[i])]

\* Polynomial::eval, the sum of lines 172-174 from term i on.
RECURSIVE evalSum(_, _, _, _)
evalSum(p, coefs, v, i) ==
  IF i >= Len(coefs) THEN 0
  ELSE coefs[i + 1] * exp(p, v, fbigint(p, i)) + evalSum(p, coefs, v, i + 1)

\* Polynomial::eval
eval(p, coefs, v) == modd(p, evalSum(p, coefs, v, 0))

\* Polynomial::pop_term: the coefficient and the exponent of the highest
\* nonzero term, and the coefficients with that term set to zero.
pop_term(coefs) ==
  LET k == lastNonzero(coefs, Len(coefs))
  IN  IF k = 0 THEN [coef |-> 0, e |-> 0, coefs |-> coefs]
      ELSE [coef |-> coefs[k], e |-> k - 1, coefs |-> [coefs EXCEPT ![k] = 0]]

\* A loop of the code that returns to the state it was entered in runs
\* for ever.
Diverges == [ok |-> FALSE, val |-> 0, err |-> "does not terminate"]

\* A division step that subtracts the monomial, not monomial * divisor.
divStepNoMul(p, divisor, d_e, d_inv, q, inter) ==
  LET largest_term == pop_term(inter)
      new_coef == mul(p, largest_term.coef, d_inv)
      new_exp  == largest_term.e - d_e
      t        == term(p, <<>>, mul(p, new_coef, divisor[d_e + 1]),
                       new_exp + d_e)
  IN  [q |-> term(p, q, new_coef, new_exp), inter |-> psub(p, inter, t)]

\* One iteration of the loop of Polynomial::div, lines 211-218.
divStep(p, divisor, d_e, d_inv, q, inter) ==
  LET largest_term == pop_term(inter)
      new_coef == mul(p, largest_term.coef, d_inv)
      new_exp  == largest_term.e - d_e
      t        == pmul(p, term(p, <<>>, new_coef, new_exp), divisor)
  IN  [q |-> term(p, q, new_coef, new_exp), inter |-> psub(p, inter, t)]

\* Polynomial::div, the loop of lines 210-219.
RECURSIVE divLoop(_, _, _, _, _, _)
divLoop(p, divisor, d_e, d_inv, q, inter) ==
  IF degree(inter) >= degree(divisor)
    THEN LET s == divStep(p, divisor, d_e, d_inv, q, inter)
         IN  IF s.q = q /\ s.inter = inter THEN Diverges
             ELSE divLoop(p, divisor, d_e, d_inv, s.q, s.inter)
    ELSE Ok([q |-> q, r |-> inter])

\* Polynomial::div: the quotient and the remainder, or a panic.
div(p, coefs, divisor) ==
  IF is_zero(divisor) THEN Panic("divide by zero")
  ELSE LET divisor_term == pop_term(divisor)
           divisor_term_inv == inv(p, divisor_term.coef)
       IN  IF ~divisor_term_inv.ok THEN divisor_term_inv
           ELSE divLoop(p, divisor, divisor_term.e, divisor_term_inv.val,
                        <<>>, coefs)

\* Polynomial::safe_div
safe_div(p, coefs, divisor) ==
  LET qr == div(p, coefs, divisor)
  IN  IF ~qr.ok THEN qr
      ELSE IF ~is_zero(qr.val.r) THEN Panic("non-zero remainder in division")
      ELSE Ok(qr.val.q)

\* Polynomial::lagrange, lines 227-234: the product of the (x - v), from
\* the i-th of x_vals on.
RECURSIVE lagNumerator(_, _, _, _)
lagNumerator(p, x_vals, i, numerator) ==
  IF i > Len(x_vals) THEN numerator
  ELSE lagNumerator(p, x_vals, i + 1,
         pmul(p, numerator,
              term(p, term(p, <<>>, fbigint(p, 1), 1), neg(p, x_vals[i]), 0)))

\* Lines 237-243: the product of the x_i - x_j, j # i, from j on.
RECURSIVE lagDenominator(_, _, _, _, _)
lagDenominator(p, x_vals, i, j, denominator) ==
  IF j > Len(x_vals) THEN denominator
  ELSE lagDenominator(p, x_vals, i, j + 1,
         IF i = j THEN denominator
         ELSE mul(p, denominator, x_vals[i] - x_vals[j]))

\* Lines 244-249: the i-th basis polynomial.
lagBasis(p, x_vals, i, numerator) ==
  LET denominator == lagDenominator(p, x_vals, i, 1, 1)
      n == mul_scalar(p,
             term(p, term(p, <<>>, fbigint(p, 1), 1), neg(p, x_vals[i]), 0),
             denominator)
  IN  safe_div(p, numerator, n)

\* Lines 236-255: the basis polynomials are computed, then summed with the
\* weights y_vals, from the i-th on.
RECURSIVE lagSum(_, _, _, _, _, _)
lagSum(p, x_vals, y_vals, numerator, i, out) ==
  IF i > Len(x_vals) THEN Ok(out)
  ELSE LET b == lagBasis(p, x_vals, i, numerator)
       IN  IF ~b.ok THEN b
           ELSE lagSum(p, x_vals, y_vals, numerator, i + 1,
                       padd(p, out, mul_scalar(p, b.val, y_vals[i])))

\* Polynomial::lagrange
lagrange(p, x_vals, y_vals) ==
  IF Len(x_vals) # Len(y_vals)
    THEN Panic("lagrange mismatch x/y array length")
    ELSE lagSum(p, x_vals, y_vals,
                lagNumerator(p, x_vals, 1, term(p, <<>>, fbigint(p, 1), 0)),
                1, <<>>)

(***************************************************************************)
(* What fri.rs calls and the sources at hand do not hold: the channel, and *)
(* Field::sample, domain, coset, ladd, lmul and lsub.  They are modelled   *)
(* from the specification.  A message is a sequence of BigUint values as   *)
(* the tree handles them (see U and hash).                                 *)
(***************************************************************************)
\* The digests of the model's BLAKE3 are the integers below HashRange.
HashRange == 65536

\* The digest of one BigUint: of an integer, or of a hash of two values.
RECURSIVE Digest(_)
Digest(v) ==
  IF Len(v) = 1 THEN (v[1] + 1) % HashRange
  ELSE (31 * Digest(v[1]) + 17 * Digest(v[2]) + 7) % HashRange

\* A hasher in state h fed the elements of a message from the i-th on.
RECURSIVE absorb(_, _, _)
absorb(h, message, i) ==
  IF i > Len(message) THEN h
  ELSE absorb((131 * h + Digest(message[i]) + 1) % HashRange, message, i + 1)

\* H of the first n messages of a log: the elements of all of them, in write
\* order, fed to a hasher that starts in the state key.
RECURSIVE H(_, _, _)
H(key, log, n) ==
  IF n = 0 THEN key ELSE absorb(H(key, log, n - 1), log[n], 1)

\* Channel::new
ChannelNew(key) == [log |-> <<>>, cursor |-> 0, key |-> key]

\* Channel::push
push(ch, message) == [ch EXCEPT !.log = Append(@, message)]

\* Channel::push_single
push_single(ch, x) == push(ch, <<x>>)

\* Channel::pull: the next message and the channel with its cursor advanced;
\* pulling past the end is fatal.
pull(ch) ==
  IF ch.cursor >= Len(ch.log)
    THEN [ok |-> FALSE, err |-> "pull past the end of the channel",
          data |-> <<>>, channel |-> ch]
    ELSE [ok |-> TRUE, err |-> "", data |-> ch.log[ch.cursor + 1],
          channel |-> [ch EXCEPT !.cursor = @ + 1]]

\* Channel::prover_hash: H of all messages written so far.
prover_hash(ch) == H(ch.key, ch.log, Len(ch.log))

\* Channel::verifier_hash: H of all messages read so far.
verifier_hash(ch) == H(ch.key, ch.log, ch.cursor)

\* Field::sample: the seed reduced modulo p.
sample(p, seed) == seed % p

\* Field::domain: base^0, base^1, ..., base^(n-1), each from the one before.
RECURSIVE domain(_, _, _)
domain(p, base, n) ==
  IF n = 0 THEN <<>>
  ELSE IF n = 1 THEN <<1>>
  ELSE LET d == domain(p, base, n - 1)
       IN  Append(d, mul(p, d[n - 1], base))

\* Field::coset: offset * w^i for i < n, w the generator of the subgroup of
\* size n.
coset(p, g, n, offset) ==
  LET shifted(w) ==
        IF ~w.ok THEN w
        ELSE Ok([i \in 1..n |-> mul(p, offset, domain(p, w.val, n)[i])])
  IN  shifted(generator(p, g, n))

\* Field::ladd, lmul, lsub: the sum, product and difference as they are; the
\* Field::mul that takes them in reduces them.
ladd(v1, v2) == v1 + v2

lmul(v1, v2) == v1 * v2

lsub(v1, v2) == v1 - v2

(***************************************************************************)
(* fri.rs: construction and the prover.                                    *)
(*                                                                         *)
(* An operation on the channel returns the channel it leaves behind, also  *)
(* when it panics: what was pushed or pulled before the panic stays.       *)
(***************************************************************************)
\* n >> k on an unsigned integer.
shr(n, k) == n \div (2^k)

\* The message of the panic of an unsigned subtraction below zero.
SubOverflow == "attempt to subtract with overflow"

\* The message of the panic of a remainder by zero.
RemByZero == "attempt to calculate the remainder with a divisor of zero"

\* A panic of an operation that leaves the channel ch.
Fail(msg, ch) == [ok |-> FALSE, err |-> msg, channel |-> ch]

\* A loop that halves at most once.
roundCountLoopOnce(codeword_len, expansion_factor, test_count, round_count) ==
  IF codeword_len > expansion_factor /\ 4 * test_count < codeword_len
    THEN round_count + 1
    ELSE round_count

\* Fri::new, the loop of lines 34-39.
RECURSIVE roundCountLoop(_, _, _, _)
roundCountLoop(codeword_len, expansion_factor, test_count, round_count) ==
  IF codeword_len > expansion_factor /\ 4 * test_count < codeword_len
    THEN roundCountLoop(codeword_len \div 2, expansion_factor,
                        test_count, round_count + 1)
    ELSE round_count

\* Fri::new
new(options, field) ==
  [offset |-> options.offset,
   omega |-> options.omega,
   domain_len |-> options.domain_len,
   field |-> field,
   expansion_factor |-> options.expansion_factor,
   colinearity_test_count |-> options.colinearity_test_count,
   domain |-> coset(field.p, field.g, options.domain_len, options.offset).val,
   round_count |-> roundCountLoop(options.domain_len,
                                  options.expansion_factor,
                                  options.colinearity_test_count, 0)]

\* A fold that keeps the sum a + b and does not halve it.
foldNotHalved(p, codeword, alpha, e, pre) ==
  LET next_len == shr(Len(codeword), 1)
  IN  [k \in 1..next_len |->
         LET index == k - 1
             ival == codeword[k][1]
             inv_omega == mul(p, pre.inv_offset_domain[e + 1],
                              pre.inv_domain[e * index + 1])
             a == mul(p, ival, ladd(1, lmul(alpha, inv_omega)))
             b == mul(p, lsub(1, lmul(alpha, inv_omega)),
                      codeword[shr(Len(codeword), 1) + index + 1][1])
         IN  U(modd(p, ladd(a, b)))]

\* Fri::commit, lines 149-178: the codeword folded with alpha.  pre holds
\* two_inv, inv_offset_domain and inv_domain.
fold(p, codeword, alpha, e, pre) ==
  LET next_len == shr(Len(codeword), 1)
  IN  [k \in 1..next_len |->
         LET index == k - 1
             ival == codeword[k][1]
             inv_omega == mul(p, pre.inv_offset_domain[e + 1],
                              pre.inv_domain[e * index + 1])
             a == mul(p, ival, ladd(1, lmul(alpha, inv_omega)))
             b == mul(p, lsub(1, lmul(alpha, inv_omega)),
                      codeword[shr(Len(codeword), 1) + index + 1][1])
         IN  U(mul(p, pre.two_inv, ladd(a, b)))]

\* Fri::commit, the loop of lines 136-181 from round x on.
RECURSIVE commitLoop(_, _, _, _, _, _, _, _)
commitLoop(self, x, codeword, codewords, ch, e, alphas, pre) ==
  LET left(ok, err, c) ==
        [ok |-> ok, err |-> err, channel |-> c, codeword |-> codeword,
         codewords |-> codewords, alphas |-> alphas]
      committed(root) ==
        IF ~root.ok THEN left(FALSE, root.err, ch)
        ELSE LET pushed(ch1) ==
                   IF x = self.round_count - 1 THEN left(TRUE, "", ch1)
                   ELSE LET sampled(alpha) ==
                              commitLoop(self, x + 1,
                                         fold(self.field.p, codeword, alpha,
                                              e, pre),
                                         Append(codewords, codeword), ch1,
                                         2 * e, Append(alphas, alpha), pre)
                        IN  sampled(sample(self.field.p, prover_hash(ch1)))
             IN  pushed(push_single(ch, root.val))
  IN  IF x >= self.round_count THEN left(TRUE, "", ch)
      ELSE committed(commit(codeword))

\* Fri::commit: the codewords, and the alphas sampled on the way.
fri_commit(self, codeword, ch) ==
  LET p == self.field.p
      bad(msg) == [ok |-> FALSE, err |-> msg, channel |-> ch,
                   codewords |-> <<>>, alphas |-> <<>>]
      looped(l) ==
        IF ~l.ok
          THEN [ok |-> FALSE, err |-> l.err, channel |-> l.channel,
                codewords |-> l.codewords, alphas |-> l.alphas]
          ELSE [ok |-> TRUE, err |-> "",
                channel |-> push(l.channel, l.codeword),
                codewords |-> Append(l.codewords, l.codeword),
                alphas |-> l.alphas]
      inverted(two_inv, inv_offset, inv_omega) ==
        IF ~two_inv.ok THEN bad(two_inv.err)
        ELSE IF ~inv_offset.ok THEN bad(inv_offset.err)
        ELSE IF ~inv_omega.ok THEN bad(inv_omega.err)
        ELSE looped(commitLoop(self, 0, codeword, <<>>, ch, 1, <<>>,
                      [two_inv |-> two_inv.val,
                       inv_offset_domain |->
                         domain(p, inv_offset.val, 2^self.round_count),
                       inv_domain |->
                         domain(p, inv_omega.val, self.domain_len)]))
  IN  inverted(inv(p, 2), inv(p, self.offset), inv(p, self.omega))

\* blake3 of the seed followed by the counter, in sample_indices.
IndexHash(seed, counter) == (257 * seed + 13 * counter + 11) % HashRange

\* The loop of sample_indices once every index below size has its residue
\* taken: no hash is accepted any more, and the loop runs until counter
\* overflows (a panic where overflow is checked, for ever where it wraps).
Exhausted == [ok |-> FALSE, val |-> <<>>, err |-> "no index is left to sample"]

\* Fri::sample_indices, the loop of lines 198-210.
RECURSIVE sampleLoop(_, _, _, _, _, _, _)
sampleLoop(seed, size, reduced_size, count, counter, indices, reduced_indices) ==
  IF Len(indices) >= count THEN Ok(indices)
  ELSE IF size = 0 THEN Panic(BigIntDivZero)
  ELSE IF reduced_size = 0 THEN Panic(RemByZero)
  ELSE IF \A index \in 0..(size - 1) :
            index % reduced_size \in reduced_indices
    THEN Exhausted
  ELSE LET index == IndexHash(seed, counter) % size
           reduced_index == index % reduced_size
       IN  IF reduced_index \notin reduced_indices
             THEN sampleLoop(seed, size, reduced_size, count, counter + 1,
                             Append(indices, index),
                             reduced_indices \cup {reduced_index})
             ELSE sampleLoop(seed, size, reduced_size, count, counter + 1,
                             indices, reduced_indices)

\* A sampling that takes the first count hashes, whatever their residues.
sampleNoRejection(seed, size, reduced_size, count) ==
  IF count > reduced_size
    THEN Panic("cannot sample more indices than available")
  ELSE IF size = 0 THEN Panic(BigIntDivZero)
  ELSE Ok([k \in 1..count |-> IndexHash(seed, k - 1) % size])

\* Fri::sample_indices
sample_indices(seed, size, reduced_size, count) ==
  IF count > 2 * reduced_size THEN Panic("not enough entropy")
  ELSE IF count > reduced_size
    THEN Panic("cannot sample more indices than available")
  ELSE sampleLoop(seed, size, reduced_size, count, 0, <<>>, {})

\* Fri::query, the loop of lines 104-110 from i on.
RECURSIVE queryPoints(_, _, _, _, _, _, _)
queryPoints(current_codeword, next_codeword, indices_c, half, count, i, ch) ==
  IF i >= count THEN [ok |-> TRUE, err |-> "", channel |-> ch]
  ELSE IF i >= Len(indices_c) THEN Fail(OutOfBounds, ch)
  ELSE LET a == indices_c[i + 1]
           b == indices_c[i + 1] + half
       IN  IF b >= Len(current_codeword) \/ a >= Len(next_codeword)
             THEN Fail(OutOfBounds, ch)
             ELSE queryPoints(current_codeword, next_codeword, indices_c,
                              half, count, i + 1,
                              push(ch, <<current_codeword[a + 1],
                                         current_codeword[b + 1],
                                         next_codeword[a + 1]>>))

\* Fri::query, the loop of lines 111-115 from i on.
RECURSIVE queryPaths(_, _, _, _, _, _, _)
queryPaths(current_codeword, next_codeword, indices_c, half, count, i, ch) ==
  LET opened(pa, pb, pc) ==
        IF ~pa.ok THEN Fail(pa.err, ch)
        ELSE IF ~pb.ok THEN Fail(pb.err, push(ch, pa.val.path))
        ELSE IF ~pc.ok
          THEN Fail(pc.err, push(push(ch, pa.val.path), pb.val.path))
        ELSE queryPaths(current_codeword, next_codeword, indices_c, half,
                        count, i + 1,
                        push(push(push(ch, pa.val.path), pb.val.path),
                             pc.val.path))
  IN  IF i >= count THEN [ok |-> TRUE, err |-> "", channel |-> ch]
      ELSE opened(open(indices_c[i + 1], current_codeword),
                  open(indices_c[i + 1] + half, current_codeword),
                  open(indices_c[i + 1], next_codeword))

\* A query that pushes the paths before the triples.
queryPathsFirst(self, current_codeword, next_codeword, indices_c, ch) ==
  LET half == shr(Len(current_codeword), 1)
      pathed(pa) ==
        IF ~pa.ok THEN pa
        ELSE queryPoints(current_codeword, next_codeword, indices_c, half,
                         self.colinearity_test_count, 0, pa.channel)
  IN  pathed(queryPaths(current_codeword, next_codeword, indices_c, half,
                        self.colinearity_test_count, 0, ch))

\* Fri::query
query(self, current_codeword, next_codeword, indices_c, ch) ==
  LET half == shr(Len(current_codeword), 1)
      pointed(pts) ==
        IF ~pts.ok THEN pts
        ELSE queryPaths(current_codeword, next_codeword, indices_c, half,
                        self.colinearity_test_count, 0, pts.channel)
  IN  pointed(queryPoints(current_codeword, next_codeword, indices_c, half,
                          self.colinearity_test_count, 0, ch))

\* Fri::prove, line 76: the indices of round i from those of the round
\* before.
proverIndices(indices, codeword_len) ==
  [k \in 1..Len(indices) |-> indices[k] % shr(codeword_len, 1)]

\* Fri::prove, the loop of lines 73-86 from round i on; rounds collects the
\* indices each round was queried at.
RECURSIVE proveRounds(_, _, _, _, _, _)
proveRounds(self, codewords, indices, i, ch, rounds) ==
  LET queried(ind, q) ==
        IF ~q.ok
          THEN [ok |-> FALSE, err |-> q.err, channel |-> q.channel,
                rounds |-> Append(rounds, ind)]
          ELSE proveRounds(self, codewords, ind, i + 1, q.channel,
                           Append(rounds, ind))
      reduced(ind) ==
        queried(ind, query(self, codewords[i + 1], codewords[i + 2], ind, ch))
  IN  IF i >= Len(codewords) - 1
        THEN [ok |-> TRUE, err |-> "", channel |-> ch, rounds |-> rounds]
      ELSE IF shr(Len(codewords[i + 1]), 1) = 0
        THEN [ok |-> FALSE, err |-> RemByZero, channel |-> ch,
              rounds |-> rounds]
      ELSE reduced(proverIndices(indices, Len(codewords[i + 1])))

\* Fri::prove: the top indices in val, the channel it leaves, and for the
\* record the alphas the commit phase sampled, the top indices as sampled
\* and the indices of every query round.
prove(self, codeword, ch) ==
  LET bad(msg, c, alphas) ==
        [ok |-> FALSE, err |-> msg, channel |-> c, val |-> <<>>,
         alphas |-> alphas, top |-> <<>>, rounds |-> <<>>]
      committed(c) ==
        IF ~c.ok THEN bad(c.err, c.channel, c.alphas)
        ELSE IF Len(c.codewords) < 2
          THEN bad(OutOfBounds, c.channel, c.alphas)
        ELSE LET sampled(top_indices) ==
                   IF ~top_indices.ok
                     THEN bad(top_indices.err, c.channel, c.alphas)
                   ELSE LET queried(l) ==
                              [ok |-> l.ok, err |-> l.err,
                               channel |-> l.channel,
                               val |-> IF l.ok THEN top_indices.val
                                       ELSE <<>>,
                               alphas |-> c.alphas,
                               top |-> top_indices.val,
                               rounds |-> l.rounds]
                        IN  queried(proveRounds(self, c.codewords,
                                                top_indices.val, 0,
                                                c.channel, <<>>))
             IN  sampled(sample_indices(prover_hash(c.channel),
                                        Len(c.codewords[2]),
                                        Len(c.codewords[Len(c.codewords)]),
                                        self.colinearity_test_count))
  IN  IF self.domain_len # Len(codeword)
        THEN bad("initial codeword does not match domain len", ch, <<>>)
        ELSE committed(fri_commit(self, codeword, ch))

(***************************************************************************)
(* What Fri::verify calls of polynomial.rs and the sources at hand do not  *)
(* hold: interpolate_fft and test_colinearity_batch, modelled from the     *)
(* specification.                                                          *)
(***************************************************************************)
\* The sum of values[k] * winv^(j * k) over k, from k on, modulo p.
RECURSIVE nttSum(_, _, _, _, _)
nttSum(p, values, winv, j, k) ==
  IF k >= Len(values) THEN 0
  ELSE (values[k + 1] * modpow(winv, j * k, p)
          + nttSum(p, values, winv, j, k + 1)) % p

\* Polynomial::interpolate_fft: the inverse transform over the coset
\* domain[k] = c * w^k.  The coefficient of x^j is
\* n^-1 * c^-j * sum_k values[k] * w^(-j * k).
interpolate_fft(p, dom, values) ==
  LET n == Len(dom)
      shifted(cinv) ==
        IF ~cinv.ok THEN cinv
        ELSE LET stepped(winv, ninv) ==
                   IF ~winv.ok THEN winv
                   ELSE IF ~ninv.ok THEN ninv
                   ELSE Ok([i \in 1..n |->
                              (ninv.val * modpow(cinv.val, i - 1, p)
                                 * nttSum(p, values, winv.val, i - 1, 0))
                                % p])
             IN  stepped(inv(p, IF n >= 2 THEN mul(p, dom[2], cinv.val)
                                ELSE 1),
                         inv(p, n))
  IN  IF n = 0 THEN Ok(<<>>) ELSE shifted(inv(p, dom[1]))

\* Three points of F_p x F_p lie on one line.  The x are pairwise different.
Colinear(p, xs, ys) ==
  ((ys[2] - ys[1]) * (xs[3] - xs[1]) - (ys[3] - ys[1]) * (xs[2] - xs[1]))
     % p = 0

\* Polynomial::test_colinearity_batch: every triple of points lies on a
\* line.  The line is interpolated, which divides by the differences of the
\* x: two equal x are a division by zero.
test_colinearity_batch(p, x_vals, y_vals) ==
  IF \E t \in 1..Len(x_vals) : \E i, j \in 1..3 :
       i < j /\ (x_vals[t][i] - x_vals[t][j]) % p = 0
    THEN Panic("divide by zero")
    ELSE Ok(\A t \in 1..Len(x_vals) : Colinear(p, x_vals[t], y_vals[t]))

(***************************************************************************)
(* fri.rs: the verifier.                                                   *)
(***************************************************************************)
\* Fri::verify, the loop of lines 221-229 from round k on.
RECURSIVE pullRoots(_, _, _, _, _)
pullRoots(self, k, ch, roots, alphas) ==
  LET pulled(m) ==
        IF ~m.ok \/ Len(m.data) = 0
          THEN [ok |-> FALSE,
                err |-> IF ~m.ok THEN m.err ELSE OutOfBounds,
                channel |-> m.channel, roots |-> roots,
                alphas |-> alphas]
          ELSE pullRoots(self, k + 1, m.channel, Append(roots, m.data[1]),
                         Append(alphas,
                                sample(self.field.p,
                                       verifier_hash(m.channel))))
  IN  IF k >= self.round_count
        THEN [ok |-> TRUE, err |-> "", channel |-> ch, roots |-> roots,
              alphas |-> alphas]
        ELSE pulled(pull(ch))

\* Fri::verify, the loop of lines 239-241: v squared n times.
RECURSIVE squareLoop(_, _, _)
squareLoop(p, v, n) == IF n <= 0 THEN v ELSE squareLoop(p, mul(p, v, v), n - 1)

\* Fri::verify, lines 265-279: the last codeword interpolated over its
\* domain, and the degree of the polynomial.
checkPoly(p, last_domain, last_codeword, deg) ==
  LET interpolated(poly) ==
        IF ~poly.ok THEN poly
        ELSE IF \E i \in 1..Len(last_domain) :
                  eval(p, poly.val, last_domain[i]) # last_codeword[i][1]
          THEN Panic("interpolated polynomial is incorrect")
        ELSE IF degree(poly.val) > deg
          THEN Panic("last codeword does not match polynomial of low enough degree")
        ELSE Ok(TRUE)
  IN  interpolated(interpolate_fft(p, last_domain,
                     [k \in 1..Len(last_codeword) |-> last_codeword[k][1]]))

\* Fri::verify, lines 238-254: the order of the last omega, and lines
\* 256-264, the domain of the last codeword.
checkOmega(self, last_codeword, deg, omega_domain) ==
  LET p == self.field.p
      n == Len(last_codeword)
      omega_start_index == 2^(self.round_count - 1)
      inverted(w, winv, last_offset) ==
        IF ~winv.ok THEN winv
        ELSE IF winv.val # exp(p, w, n - 1) THEN Panic("omega order incorrect")
        ELSE IF omega_start_index * (n - 1) >= Len(omega_domain)
          THEN Panic(OutOfBounds)
        ELSE checkPoly(p,
               [k \in 1..n |->
                  mul(p, last_offset,
                      omega_domain[omega_start_index * (k - 1) + 1])],
               last_codeword, deg)
  IN  IF omega_start_index >= Len(omega_domain) THEN Panic(OutOfBounds)
      ELSE inverted(omega_domain[omega_start_index + 1],
                    inv(p, omega_domain[omega_start_index + 1]),
                    squareLoop(p, self.offset, self.round_count - 1))

\* Fri::verify, lines 232-279: the checks of the last codeword.  A
\* subtraction below zero is taken as the panic of a build with overflow
\* checks.
checkLast(self, roots, last_codeword) ==
  LET deg == (Len(last_codeword) \div self.expansion_factor) - 1
      rooted(root) ==
        IF ~root.ok THEN root
        ELSE IF roots[Len(roots)] # root.val
          THEN Panic("last codeword root mismatch")
        ELSE IF self.expansion_factor = 0 THEN Panic(BigIntDivZero)
        ELSE IF deg < 0 THEN Panic(SubOverflow)
        ELSE checkOmega(self, last_codeword, deg,
                        domain(self.field.p, self.omega, self.domain_len))
  IN  IF Len(roots) = 0 THEN Panic(SubOverflow)
      ELSE rooted(commit(last_codeword))

\* A verifier whose indices of round i are reduced one halving too far.
verifierIndicesHalved(top_indices, domain_len, i) ==
  [k \in 1..Len(top_indices) |-> top_indices[k] % shr(domain_len, i + 2)]

\* Fri::verify, lines 291-294: the indices of round i.
verifierIndices(top_indices, domain_len, i) ==
  [k \in 1..Len(top_indices) |-> top_indices[k] % shr(domain_len, i + 1)]

\* Pairs that take the second value from the next layer.
outPairsOfNext(index_a, index_b, data) ==
  <<<<index_a, data[1]>>, <<index_b, data[3]>>>>

\* Fri::verify, lines 313-314: the two pairs a triple of round 0 gives out.
outPairs(index_a, index_b, data) ==
  <<<<index_a, data[1]>>, <<index_b, data[2]>>>>

\* Fri::verify, the loop of lines 304-336 of round i from j on.  st holds
\* the channel, the offset and exp of the round, the colinearity vectors
\* and out; aa, bb and cc are added to it.
RECURSIVE pullPoints(_, _, _, _, _, _, _)
pullPoints(self, omega_domain, i, indices_a, indices_b, j, st) ==
  LET p == self.field.p
      pulled(m, st1) ==
        IF ~m.ok THEN [st1 EXCEPT !.ok = FALSE, !.err = m.err]
        ELSE IF Len(m.data) < 3 \/ j >= Len(indices_a)
          THEN [st1 EXCEPT !.ok = FALSE, !.err = OutOfBounds]
        ELSE LET a == indices_a[j + 1]
                 b == indices_b[j + 1]
                 given(out1) ==
                   IF st.e * b >= Len(omega_domain)
                     THEN [st1 EXCEPT !.ok = FALSE, !.err = OutOfBounds,
                                      !.out = out1]
                     ELSE pullPoints(self, omega_domain, i, indices_a,
                            indices_b, j + 1,
                            [st1 EXCEPT
                               !.out = out1,
                               !.aa = Append(@, m.data[1]),
                               !.bb = Append(@, m.data[2]),
                               !.cc = Append(@, m.data[3]),
                               !.xs = Append(@,
                                 <<mul(p, st.offset,
                                       omega_domain[st.e * a + 1]),
                                   mul(p, st.offset,
                                       omega_domain[st.e * b + 1]),
                                   st.alphas[i + 1]>>),
                               !.ys = Append(@, <<m.data[1][1],
                                                  m.data[2][1],
                                                  m.data[3][1]>>)])
             IN  given(IF i = 0 THEN st.out \o outPairs(a, b, m.data)
                       ELSE st.out)
      taken(m) == pulled(m, [st EXCEPT !.channel = m.channel])
  IN  IF j >= self.colinearity_test_count THEN [st EXCEPT !.ok = TRUE]
      ELSE taken(pull(st.channel))

\* A verifier that pulls the paths of a round and does not verify them.
pullPathsUnverified(self, roots, i, indices_a, indices_b, j, st) ==
  IF j >= self.colinearity_test_count THEN [st EXCEPT !.ok = TRUE]
  ELSE IF st.channel.cursor + 3 * (self.colinearity_test_count - j)
            > Len(st.channel.log)
    THEN [st EXCEPT !.ok = FALSE,
                    !.err = "pull past the end of the channel",
                    !.channel.cursor = Len(st.channel.log)]
  ELSE [st EXCEPT !.ok = TRUE,
                  !.channel.cursor = @ + 3 * (self.colinearity_test_count - j)]

\* Fri::verify, the loop of lines 346-350 of round i from j on.
RECURSIVE pullPaths(_, _, _, _, _, _, _)
pullPaths(self, roots, i, indices_a, indices_b, j, st) ==
  LET bad(m, msg) == [st EXCEPT !.ok = FALSE, !.err = msg,
                                !.channel = m.channel]
      checked(ma, mb, mc, va, vb, vc) ==
        IF ~ma.ok THEN bad(ma, ma.err)
        ELSE IF ~va.ok THEN bad(ma, va.err)
        ELSE IF ~mb.ok THEN bad(mb, mb.err)
        ELSE IF ~vb.ok THEN bad(mb, vb.err)
        ELSE IF ~mc.ok THEN bad(mc, mc.err)
        ELSE IF ~vc.ok THEN bad(mc, vc.err)
        ELSE pullPaths(self, roots, i, indices_a, indices_b, j + 1,
                       [st EXCEPT !.channel = mc.channel])
      pulled(ma, mb, mc) ==
        checked(ma, mb, mc,
                verify(roots[i + 1], indices_a[j + 1], ma.data, st.aa[j + 1]),
                verify(roots[i + 1], indices_b[j + 1], mb.data, st.bb[j + 1]),
                verify(roots[i + 2], indices_a[j + 1], mc.data, st.cc[j + 1]))
      second(ma, mb) == pulled(ma, mb, pull(mb.channel))
      first(ma) == second(ma, pull(ma.channel))
  IN  IF j >= self.colinearity_test_count THEN [st EXCEPT !.ok = TRUE]
      ELSE first(pull(st.channel))

\* Fri::verify, the loop of lines 290-354 from round i on.  rounds collects
\* the indices each round was checked at.
RECURSIVE verifyRounds(_, _, _, _, _)
verifyRounds(self, roots, omega_domain, i, st) ==
  LET pointed(indices_c, indices_b, pts) ==
        LET tested(col) ==
              IF ~col.ok THEN [pts EXCEPT !.ok = FALSE, !.err = col.err]
              ELSE IF ~col.val
                THEN [pts EXCEPT !.ok = FALSE,
                                 !.err = "colinearity test failed"]
              ELSE LET pathed(pa) ==
                         IF ~pa.ok THEN pa
                         ELSE verifyRounds(self, roots, omega_domain, i + 1,
                                [pa EXCEPT !.e = 2 * @,
                                           !.offset = mul(self.field.p, @, @)])
                   IN  pathed(pullPaths(self, roots, i, indices_c, indices_b,
                                        0, pts))
        IN  IF ~pts.ok THEN pts
            ELSE tested(test_colinearity_batch(self.field.p, pts.xs, pts.ys))
      paired(indices_c, indices_b) ==
        pointed(indices_c, indices_b,
                pullPoints(self, omega_domain, i, indices_c, indices_b, 0,
                           [st EXCEPT !.rounds = Append(@, indices_c),
                                      !.aa = <<>>, !.bb = <<>>, !.cc = <<>>]))
      reduced(indices_c) ==
        paired(indices_c,
               [k \in 1..Len(indices_c) |->
                  indices_c[k] + shr(self.domain_len, i + 1)])
  IN  IF i >= self.round_count - 1 THEN [st EXCEPT !.ok = TRUE]
      ELSE IF shr(self.domain_len, i + 1) = 0
        THEN [st EXCEPT !.ok = FALSE, !.err = RemByZero]
      ELSE reduced(verifierIndices(st.top, self.domain_len, i))

\* Fri::verify: the (index, y) pairs in val, the channel it leaves, and for
\* the record the alphas, the top indices and the indices of every round
\* as the verifier derived them.
fri_verify(self, ch) ==
  LET bad(msg, c, alphas) ==
        [ok |-> FALSE, err |-> msg, val |-> <<>>, channel |-> c,
         alphas |-> alphas, top |-> <<>>, rounds |-> <<>>]
      rooted(rs) ==
        IF ~rs.ok THEN bad(rs.err, rs.channel, rs.alphas)
        ELSE LET pulled(m) ==
                   IF ~m.ok THEN bad(m.err, m.channel, rs.alphas)
                   ELSE LET checked(chk, top_indices) ==
                              IF ~chk.ok
                                THEN bad(chk.err, m.channel, rs.alphas)
                              ELSE IF ~top_indices.ok
                                THEN bad(top_indices.err, m.channel,
                                         rs.alphas)
                              ELSE LET queried(l) ==
                                         [ok |-> l.ok, err |-> l.err,
                                          val |-> IF l.ok THEN l.out
                                                  ELSE <<>>,
                                          channel |-> l.channel,
                                          alphas |-> rs.alphas,
                                          top |-> top_indices.val,
                                          rounds |-> l.rounds]
                                   IN  queried(verifyRounds(self, rs.roots,
                                         domain(self.field.p, self.omega,
                                                self.domain_len), 0,
                                         [ok |-> TRUE, err |-> "",
                                          channel |-> m.channel,
                                          offset |-> self.offset, e |-> 1,
                                          xs |-> <<>>, ys |-> <<>>,
                                          aa |-> <<>>, bb |-> <<>>,
                                          cc |-> <<>>, out |-> <<>>,
                                          alphas |-> rs.alphas,
                                          top |-> top_indices.val,
                                          rounds |-> <<>>]))
                        IN  checked(checkLast(self, rs.roots, m.data),
                                    sample_indices(verifier_hash(m.channel),
                                      shr(self.domain_len, 1),
                                      shr(self.domain_len,
                                          self.round_count - 1),
                                      self.colinearity_test_count))
             IN  pulled(pull(rs.channel))
  IN  rooted(pullRoots(self, 0, ch, <<>>, <<>>))

(***************************************************************************)
(* Mathematics the claims are stated in (no code is modelled here).        *)
(***************************************************************************)
IsPrime(n) == n >= 2 /\ \A d \in 2..(n - 1) : n % d # 0

Primes == {n \in 2..MaxPrime : IsPrime(n)}

RECURSIVE Pow(_, _, _)
Pow(b, e, p) == IF e = 0 THEN 1 % p ELSE (b * Pow(b, e - 1, p)) % p

\* g generates the whole multiplicative group of F_p.
IsGenerator(g, p) ==
  /\ g \in 1..(p - 1)
  /\ \A k \in 1..(p - 2) : Pow(g, k, p) # 1

IsPowerOfTwo(n) == \E k \in 0..30 : n = 2^k

\* v is a canonical residue of F_p.
Canonical(p, v) == v \in 0..(p - 1)

(***************************************************************************)
(* SpecField: the field operations applied to drawn inputs.                *)
(***************************************************************************)
FieldInputs ==
  { [op |-> "init", p |-> p, g |-> g, a |-> a, b |-> b, res |-> Ok(0)] :
      p \in Primes, g \in 1..MaxPrime, a \in (-MaxPrime - 1)..(2 * MaxPrime + 1),
      b \in 0..MaxPrime }

FieldInit ==
  /\ fld \in { s \in FieldInputs :
                 /\ IsGenerator(s.g, s.p) \/ (s.p = 2 /\ s.g = 1)
                 /\ s.a \in (-s.p - 1)..(2 * s.p + 1)
                 /\ s.b \in 0..(s.p - 1) }
  /\ mt = Idle /\ pl = Idle /\ fri = Idle
  /\ channel = Idle /\ prover = Idle /\ verifier = Idle

FieldApply(op, res) ==
  /\ fld.op = "init"
  /\ fld' = [fld EXCEPT !.op = op, !.res = res]
  /\ UNCHANGED <<mt, pl, fri, channel, prover, verifier>>

FieldModd == FieldApply("modd", Ok(modd(fld.p, fld.a)))

FieldAdd == FieldApply("add", Ok(add(fld.p, fld.a, fld.b)))

FieldSub == FieldApply("sub", Ok(sub(fld.p, fld.a, fld.b)))

FieldMul == FieldApply("mul", Ok(mul(fld.p, fld.a, fld.b)))

FieldInv == FieldApply("inv", inv(fld.p, fld.a))

FieldGenerator == FieldApply("generator", generator(fld.p, fld.g, fld.a))

FieldNext ==
  \/ FieldModd
  \/ FieldAdd
  \/ FieldSub
  \/ FieldMul
  \/ FieldInv
  \/ FieldGenerator

SpecField == FieldInit /\ [][FieldNext]_vars

(***************************************************************************)
(* SpecTree: a leaf vector is committed, or opened at an index and the     *)
(* opening verified, as it is or with one of its parts replaced.           *)
(***************************************************************************)
\* The values leaves are drawn from: the padding value, another integer and
\* a value that is itself a hash.
TreeVals == {U(0), U(1), hash(U(0), U(0))}

\* The values a part of an opening is replaced by.
TamperVals == TreeVals \cup {U(2), hash(U(0), U(1))}

LeafVectors == UNION {[1..n -> TreeVals] : n \in 0..MaxLeaves}

TreeInit ==
  /\ \E leaves \in LeafVectors, index \in 0..(MaxLeaves + 1) :
       /\ index <= Len(leaves) + 1
       /\ mt = [op |-> "init", leaves |-> leaves, index |-> index,
                root |-> U(0), path |-> <<>>, leaf |-> U(0),
                tampered |-> "none", res |-> Ok(TRUE)]
  /\ fld = Idle /\ pl = Idle /\ fri = Idle
  /\ channel = Idle /\ prover = Idle /\ verifier = Idle

TreeUnchanged == UNCHANGED <<fld, pl, fri, channel, prover, verifier>>

\* Tree::commit(&leaves)
TreeCommit ==
  /\ mt.op = "init"
  /\ mt' = [mt EXCEPT !.op = "committed", !.res = commit(mt.leaves)]
  /\ TreeUnchanged

\* let (path, root) = Tree::open(index, &leaves), and the caller's leaf
\* &leaves[index] when there is one.
TreeOpen ==
  /\ mt.op = "init"
  /\ LET o == open(mt.index, mt.leaves)
     IN  mt' = IF o.ok
                 THEN [mt EXCEPT !.op = "opened", !.res = Ok(TRUE),
                                 !.root = o.val.root, !.path = o.val.path,
                                 !.leaf = IF mt.index < Len(mt.leaves)
                                            THEN mt.leaves[mt.index + 1]
                                            ELSE U(0)]
                 ELSE [mt EXCEPT !.op = "open failed", !.res = o]
  /\ TreeUnchanged

\* The caller replaces the root, the leaf or one element of the path by
\* another value (as the tests do with path[4] and with root).
TreeTamper ==
  /\ mt.op = "opened"
  /\ mt.index < Len(mt.leaves)
  /\ \E v \in TamperVals :
       \/ /\ v # mt.root
          /\ mt' = [mt EXCEPT !.op = "tampered", !.tampered = "root",
                              !.root = v]
       \/ /\ v # mt.leaf
          /\ mt' = [mt EXCEPT !.op = "tampered", !.tampered = "leaf",
                              !.leaf = v]
       \/ \E k \in 1..Len(mt.path) :
            /\ v # mt.path[k]
            /\ mt' = [mt EXCEPT !.op = "tampered", !.tampered = "path",
                                !.path[k] = v]
  /\ TreeUnchanged

\* Tree::verify(&root, index, &path, &leaf)
TreeVerify ==
  /\ mt.op \in {"opened", "tampered"}
  /\ mt.index < Len(mt.leaves)
  /\ mt' = [mt EXCEPT !.op = "verified",
                      !.res = verify(mt.root, mt.index, mt.path, mt.leaf)]
  /\ TreeUnchanged

TreeNext ==
  \/ TreeCommit
  \/ TreeOpen
  \/ TreeTamper
  \/ TreeVerify

SpecTree == TreeInit /\ [][TreeNext]_vars

(***************************************************************************)
(* SpecLongTree: an opening of the tree of a long leaf vector, verified.   *)
(***************************************************************************)
\* The lengths of the long vectors: 2^k, 2^k - 1 and 3 * 2^k, whose f32 is
\* the length itself or is far from a power of two, and the first length
\* that an f32 cannot hold, 2^24 + 1.
LongLens ==
  {2^k : k \in 0..MaxLogLeaves}
    \cup {2^k - 1 : k \in 2..MaxLogLeaves}
    \cup {3 * 2^k : k \in 0..(MaxLogLeaves - 2)}
    \cup {2^F32MantissaBits + 1}

\* The indices opened: the first, the second, the middle and the last.
LongIndices(len) == {0, 1, len \div 2, len - 1} \cap (0..(len - 1))

LongTreeInit ==
  /\ \E len \in LongLens : \E index \in LongIndices(len) :
       mt = [op |-> "long init", len |-> len, index |-> index,
             root |-> <<0, 0>>, path |-> <<>>, leaf |-> <<0, index>>,
             res |-> Ok(TRUE)]
  /\ fld = Idle /\ pl = Idle /\ fri = Idle
  /\ channel = Idle /\ prover = Idle /\ verifier = Idle

\* let (path, root) = Tree::open(index, &leaves)
LongTreeOpen ==
  /\ mt.op = "long init"
  /\ LET o == openAt(mt.index, mt.len)
     IN  mt' = IF o.ok
                 THEN [mt EXCEPT !.op = "long opened",
                                 !.root = o.val.root, !.path = o.val.path]
                 ELSE [mt EXCEPT !.op = "long open failed", !.res = o]
  /\ TreeUnchanged

\* Tree::verify(&root, index, &path, &leaves[index])
LongTreeVerify ==
  /\ mt.op = "long opened"
  /\ mt' = [mt EXCEPT !.op = "long verified",
                      !.res = verifyAt(mt.root, mt.index, mt.path, mt.leaf)]
  /\ TreeUnchanged

LongTreeNext ==
  \/ LongTreeOpen
  \/ LongTreeVerify

SpecLongTree == LongTreeInit /\ [][LongTreeNext]_vars

(***************************************************************************)
(* SpecPoly: a division applied to drawn polynomials.                      *)
(* SpecLagrange: an interpolation applied to drawn points.                 *)
(***************************************************************************)
\* The moduli of the polynomial specifications.
PolyPrimes == {3, 5}

\* The coefficients a polynomial is drawn with: the residues and, in F_3
\* (to keep the state space small), p itself, which add returns for a sum
\* of p (see modd) and which the code takes for a nonzero coefficient.
CoefValues(p) == IF p = 3 THEN 0..p ELSE 0..(p - 1)

CoefVectors(p, maxLen) == UNION {[1..n -> CoefValues(p)] : n \in 0..maxLen}

\* Lists of canonical residues.
ResidueVectors(p, maxLen) == UNION {[1..n -> 0..(p - 1)] : n \in 0..maxLen}

PolyState(op, p, a, d, xs, ys) ==
  [op |-> op, p |-> p, a |-> a, d |-> d, xs |-> xs, ys |-> ys,
   res |-> Ok(<<>>)]

PolyInit ==
  /\ \E p \in PolyPrimes :
       \E a \in CoefVectors(p, MaxDividendLen),
          d \in CoefVectors(p, MaxDivisorLen) :
         pl = PolyState("init", p, a, d, <<>>, <<>>)
  /\ fld = Idle /\ mt = Idle /\ fri = Idle
  /\ channel = Idle /\ prover = Idle /\ verifier = Idle

LagrangeInit ==
  /\ \E p \in PolyPrimes :
       \E xs \in ResidueVectors(p, MaxPoints) :
         \E ys \in [1..Len(xs) -> 0..(p - 1)] :
           pl = PolyState("init", p, <<>>, <<>>, xs, ys)
  /\ fld = Idle /\ mt = Idle /\ fri = Idle
  /\ channel = Idle /\ prover = Idle /\ verifier = Idle

PolyUnchanged == UNCHANGED <<fld, mt, fri, channel, prover, verifier>>

\* let (q, r) = a.div(&d)
PolyDiv ==
  /\ pl.op = "init"
  /\ pl' = [pl EXCEPT !.op = "div", !.res = div(pl.p, pl.a, pl.d)]
  /\ PolyUnchanged

\* let poly = Polynomial::lagrange(&xs, &ys, &field)
PolyLagrange ==
  /\ pl.op = "init"
  /\ pl' = [pl EXCEPT !.op = "lagrange",
                      !.res = lagrange(pl.p, pl.xs, pl.ys)]
  /\ PolyUnchanged

\* a.trim()
PolyTrim ==
  /\ pl.op = "init"
  /\ pl' = [pl EXCEPT !.op = "trim", !.res = Ok(trim(pl.a))]
  /\ PolyUnchanged

\* a.mul(&d)
PolyMul ==
  /\ pl.op = "init"
  /\ pl' = [pl EXCEPT !.op = "mul", !.res = Ok(pmul(pl.p, pl.a, pl.d))]
  /\ PolyUnchanged

PolyNext ==
  \/ PolyDiv
  \/ PolyTrim
  \/ PolyMul

LagrangeNext == PolyLagrange

SpecPoly == PolyInit /\ [][PolyNext]_vars

SpecLagrange == LagrangeInit /\ [][LagrangeNext]_vars

(***************************************************************************)
(* SpecFri: a session over one channel.  A Fri is constructed as the test  *)
(* of fri.rs constructs it (offset g, omega the generator of the domain,   *)
(* and the offset outside the subgroup of omega), a polynomial of degree   *)
(* < N / rho is evaluated over its domain, the codeword is proved and the  *)
(* channel is then verified.                                               *)
(***************************************************************************)
\* The fields of the sessions: the modulus and a generator of its group.
FriFields == {[p |-> 17, g |-> 3], [p |-> 97, g |-> 5]}

ExpansionFactors == {2, 4}

FriOptions(field) ==
  { [offset |-> field.g,
     omega |-> generator(field.p, field.g, n).val,
     domain_len |-> n,
     expansion_factor |-> rho,
     colinearity_test_count |-> s] :
      n \in {m \in {2^k : k \in 2..MaxLogLen} :
                /\ (field.p - 1) % m = 0
                /\ \A i \in 0..(m - 1) :
                     modpow(generator(field.p, field.g, m).val, i, field.p)
                       # field.g},
      rho \in ExpansionFactors,
      s \in 1..MaxTests }

\* The polynomials c0 + c * x^d of degree d < bound.
FriPolys(bound) ==
  { [i \in 1..(d + 1) |-> IF i = d + 1 THEN c ELSE IF i = 1 THEN c0 ELSE 0] :
      d \in 0..(bound - 1), c \in 1..MaxCoef, c0 \in 0..1 }

\* Lines 384-389 of the test: the polynomial evaluated over the domain.
Evaluations(f, poly) ==
  [i \in 1..Len(f.domain) |-> U(eval(f.field.p, poly, f.domain[i]))]

NoResult ==
  [state |-> "init", ok |-> FALSE, err |-> "", val |-> <<>>,
   alphas |-> <<>>, top |-> <<>>, rounds |-> <<>>]

FriInit ==
  /\ \E field \in FriFields : \E options \in FriOptions(field) :
       \E f \in {new(options, field)} :
         \E poly \in FriPolys(f.domain_len \div f.expansion_factor) :
           fri = [op |-> "session", fri |-> f, poly |-> poly,
                  codeword |-> Evaluations(f, poly)]
  /\ channel \in {ChannelNew(key) : key \in 0..MaxKey}
  /\ prover = NoResult
  /\ verifier = NoResult
  /\ fld = Idle /\ mt = Idle /\ pl = Idle

Session(r) ==
  [state |-> "done", ok |-> r.ok, err |-> r.err, val |-> r.val,
   alphas |-> r.alphas, top |-> r.top, rounds |-> r.rounds]

FriProve ==
  /\ fri.op = "session"
  /\ prover.state = "init"
  /\ \E r \in {prove(fri.fri, fri.codeword, channel)} :
       /\ prover' = Session(r)
       /\ channel' = r.channel
  /\ UNCHANGED <<fld, mt, pl, fri, verifier>>

FriVerify ==
  /\ fri.op \in {"session", "tampered"}
  /\ prover.state = "done"
  /\ verifier.state = "init"
  /\ \E r \in {fri_verify(fri.fri, channel)} :
       /\ verifier' = Session(r)
       /\ channel' = r.channel
  /\ UNCHANGED <<fld, mt, pl, fri, prover>>

FriNext ==
  \/ FriProve
  \/ FriVerify

SpecFri == FriInit /\ [][FriNext]_vars

(***************************************************************************)
(* SpecTamper: the sessions, and the sessions whose transcript is altered  *)
(* between prove and verify.  The channel is an argument of verify: what   *)
(* it holds is what its caller hands in.                                   *)
(***************************************************************************)
\* The place in the log of the j-th triple of query round i (from 1), and
\* of the path of the c-th value of that triple: the roots and the last
\* codeword come first, and every round has s triples and then 3 * s paths.
TripleAt(f, i, j) ==
  f.round_count + 1 + 4 * f.colinearity_test_count * (i - 1) + j

PathAt(f, i, j, c) ==
  f.round_count + 1 + 4 * f.colinearity_test_count * (i - 1)
    + f.colinearity_test_count + 3 * (j - 1) + c

\* The values a value of a triple is replaced with: another residue, and
\* another representative of the same residue.
AlteredValues(p, v) == {U((v[1] + 1) % p), U(v[1] + p)}

\* One value of one triple of the transcript of a proof is replaced.
FriTamper ==
  /\ fri.op = "session"
  /\ prover.state = "done"
  /\ prover.ok
  /\ verifier.state = "init"
  /\ \E i \in 1..(fri.fri.round_count - 1) :
       \E j \in 1..fri.fri.colinearity_test_count : \E c \in 1..3 :
         \E n \in {TripleAt(fri.fri, i, j)} :
           \E v \in AlteredValues(fri.fri.field.p, channel.log[n][c]) :
             channel' = [channel EXCEPT !.log[n][c] = v]
  /\ fri' = [fri EXCEPT !.op = "tampered"]
  /\ UNCHANGED <<fld, mt, pl, prover, verifier>>

TamperNext ==
  \/ FriNext
  \/ FriTamper

SpecTamper == FriInit /\ [][TamperNext]_vars

(***************************************************************************)
(* SpecOmega: the sessions of a Fri constructed with an omega of any order *)
(* that is a power of two: Fri::new takes the omega of its options as it   *)
(* is.                                                                     *)
(***************************************************************************)
\* The generators of the subgroups of F_p* of the sizes 1, 2, 4, ... up to
\* twice n.
Omegas(field, n) ==
  { generator(field.p, field.g, m).val :
      m \in {l \in {2^k : k \in 0..(MaxLogLen + 1)} :
                l <= 2 * n /\ (field.p - 1) % l = 0} }

OmegaOptions(field) ==
  { [options EXCEPT !.omega = w] :
      options \in FriOptions(field), w \in Omegas(field, 2^MaxLogLen) }

OmegaInit ==
  /\ \E field \in FriFields : \E options \in OmegaOptions(field) :
       \E f \in {new(options, field)} :
         \E poly \in FriPolys(f.domain_len \div f.expansion_factor) :
           /\ options.omega \in Omegas(field, options.domain_len)
           /\ fri = [op |-> "session", fri |-> f, poly |-> poly,
                     codeword |-> Evaluations(f, poly)]
  /\ channel \in {ChannelNew(key) : key \in 0..MaxKey}
  /\ prover = NoResult
  /\ verifier = NoResult
  /\ fld = Idle /\ mt = Idle /\ pl = Idle

SpecOmega == OmegaInit /\ [][FriNext]_vars

(***************************************************************************)
(* SpecSampling: sample_indices applied to drawn arguments, next to the    *)
(* sessions, which apply it to the sizes of their codewords.               *)
(***************************************************************************)
SampleInit ==
  /\ \E seed \in 0..MaxSeed, size \in 0..MaxSize,
        reduced_size \in 0..MaxSize, count \in 0..MaxCount :
       fri = [op |-> "sample init", seed |-> seed, size |-> size,
              reduced_size |-> reduced_size, count |-> count,
              res |-> Ok(<<>>)]
  /\ channel = Idle /\ prover = Idle /\ verifier = Idle
  /\ fld = Idle /\ mt = Idle /\ pl = Idle

\* Self::sample_indices(&seed, size, reduced_size, count)
SampleIndices ==
  /\ fri.op = "sample init"
  /\ fri' = [fri EXCEPT !.op = "sampled",
                        !.res = sample_indices(fri.seed, fri.size,
                                               fri.reduced_size, fri.count)]
  /\ UNCHANGED <<fld, mt, pl, channel, prover, verifier>>

SamplingInit ==
  \/ SampleInit
  \/ FriInit

SamplingNext ==
  \/ SampleIndices
  \/ FriNext

SpecSampling == SamplingInit /\ [][SamplingNext]_vars

(***************************************************************************)
(* SpecBinding: commit applied to two leaf vectors.                        *)
(***************************************************************************)
\* Non-empty vectors of the leaves 0 and 1.
BindingVectors == UNION {[1..n -> {U(0), U(1)}] : n \in 1..MaxLeaves}

BindingInit ==
  /\ \E leaves \in BindingVectors, other \in BindingVectors :
       mt = [op |-> "pair", leaves |-> leaves, other |-> other,
             root |-> Ok(U(0)), other_root |-> Ok(U(0))]
  /\ fld = Idle /\ pl = Idle /\ fri = Idle
  /\ channel = Idle /\ prover = Idle /\ verifier = Idle

\* Tree::commit(&leaves) and Tree::commit(&other)
TreeCommitPair ==
  /\ mt.op = "pair"
  /\ mt' = [mt EXCEPT !.op = "pair committed",
                      !.root = commit(mt.leaves),
                      !.other_root = commit(mt.other)]
  /\ TreeUnchanged

BindingNext == TreeCommitPair

SpecBinding == BindingInit /\ [][BindingNext]_vars

(***************************************************************************)
(* Claims about the field.                                                 *)
(***************************************************************************)
\* C4: add, sub and mul of canonical residues a, b of F_p, and modd of any
\* integer, return a canonical residue v, 0 <= v < p.
C4_CanonicalResidues ==
  /\ (fld.op = "modd") => Canonical(fld.p, fld.res.val)
  /\ (fld.op \in {"add", "sub", "mul"} /\ Canonical(fld.p, fld.a)
        /\ Canonical(fld.p, fld.b))
       => Canonical(fld.p, fld.res.val)

\* A panic whose message says divide by zero: Field::inv's own (line 81) or
\* the BigInt division's (line 89, reached with f = 0).
IsDivByZero(r) == ~r.ok /\ r.err \in {"divide by zero", BigIntDivZero}

\* C5: for a not congruent to 0 mod p, inv(a) is a canonical residue with
\* mul(a, inv(a)) = 1; for a congruent to 0 mod p (0, p, 2p, ...) inv
\* fails with a divide-by-zero panic.
C5_InverseLaw ==
  (fld.op = "inv") =>
    IF fld.a % fld.p # 0
      THEN /\ fld.res.ok
           /\ Canonical(fld.p, fld.res.val)
           /\ mul(fld.p, fld.a, fld.res.val) = 1
      ELSE IsDivByZero(fld.res)

C5_Witness ==
  /\ fld.op = "inv"
  /\ fld.a % fld.p # 0
  /\ fld.a > fld.p
  /\ fld.res.ok
  /\ fld.res.val > 1

Abs(n) == IF n < 0 THEN -n ELSE n

\* size divides n, in the integers.
Divides(size, n) == size # 0 /\ n % Abs(size) = 0

\* w has multiplicative order exactly n in F_p.
HasOrder(w, n, p) ==
  /\ Pow(w, n, p) = 1
  /\ \A k \in 1..(n - 1) : Pow(w, k, p) # 1

\* C6: with g a generator of F_p*, generator(n) of a power of two n | p-1,
\* n < p, is a primitive n-th root of unity: exp(w, n) = 1 and, n/2 being
\* an integer from n = 2 on, exp(w, n/2) # 1; and generator fails for every
\* size that does not divide p-1 or is >= p.
C6_SubgroupGenerator ==
  (fld.op = "generator") =>
    /\ (fld.a >= 1 /\ IsPowerOfTwo(fld.a) /\ Divides(fld.a, fld.p - 1)
          /\ fld.a < fld.p)
         => /\ fld.res.ok
            /\ exp(fld.p, fld.res.val, fld.a) = 1
            /\ (fld.a >= 2 => exp(fld.p, fld.res.val, fld.a \div 2) # 1)
            /\ HasOrder(fld.res.val, fld.a, fld.p)
    /\ (~Divides(fld.a, fld.p - 1) \/ fld.a >= fld.p) => ~fld.res.ok

C6_Witness ==
  /\ fld.op = "generator"
  /\ fld.a = 4
  /\ fld.p = 13
  /\ fld.res.ok
  /\ fld.res.val \notin {1, fld.p - 1}

(***************************************************************************)
(* Claims about the Merkle tree.                                           *)
(***************************************************************************)
\* C7: for a non-empty leaf vector and an index below its length, open
\* succeeds, its root is commit(leaves), and verify of the opening with the
\* leaf at that index returns true.
C7_MerkleRoundTrip ==
  /\ (mt.op = "open failed")
       => (Len(mt.leaves) = 0 \/ mt.index >= Len(mt.leaves))
  /\ (mt.op = "opened" /\ mt.index < Len(mt.leaves))
       => /\ commit(mt.leaves).ok
          /\ mt.root = commit(mt.leaves).val
  /\ (mt.op = "verified" /\ mt.tampered = "none")
       => /\ mt.res.ok
          /\ mt.res.val = TRUE

C7_Witness ==
  /\ mt.op = "verified"
  /\ mt.tampered = "none"
  /\ Len(mt.leaves) = 5
  /\ mt.index = 4
  /\ Len(mt.path) = 6
  /\ mt.res.ok

\* C7: for a leaf vector of any length and an index below its length, open
\* succeeds and verify of the opening with the leaf at that index returns
\* true.
C7_RoundTripAnyLength ==
  /\ mt.op # "long open failed"
  /\ (mt.op = "long verified") => (mt.res.ok /\ mt.res.val = TRUE)

\* C8: with the root, the leaf or one element of the path of a valid
\* opening replaced by a different value, verify fails, with the path
\* mismatch or the root mismatch.
C8_TamperDetected ==
  (mt.op = "verified" /\ mt.tampered # "none")
    => /\ ~mt.res.ok
       /\ mt.res.err \in {"Invalid intermediate root", "root mismatch"}

C8_Witness ==
  /\ mt.op = "verified"
  /\ mt.tampered = "path"
  /\ Len(mt.leaves) = 5
  /\ mt.path[5] # open(mt.index, mt.leaves).val.path[5]
  /\ ~mt.res.ok

\* C21: for every leaf vector and every index >= |leaves|, open fails with
\* an error: it returns no path for a position that is not one of the
\* caller's leaves.
C21_OpenBoundsChecked ==
  (mt.op \in {"opened", "open failed"} /\ mt.index >= Len(mt.leaves))
    => mt.op = "open failed"

\* C20: two non-empty leaf vectors that differ in a position or in their
\* length commit to different roots, the hash being collision-free.
C20_CommitmentBinding ==
  (mt.op = "pair committed" /\ mt.leaves # mt.other) =>
     /\ mt.root.ok
     /\ mt.other_root.ok
     /\ mt.root.val # mt.other_root.val

(***************************************************************************)
(* Claims about polynomials.  Equality and degree are those of F_p[x]:     *)
(* coefficients are compared modulo p, whatever their representation.      *)
(***************************************************************************)
\* The coefficient of x^i of a coefficient vector, as a residue.
CoefAt(p, c, i) == IF i + 1 <= Len(c) THEN c[i + 1] % p ELSE 0

\* The coefficient of x^k of the product of two coefficient vectors.
RECURSIVE ProductCoef(_, _, _, _, _)
ProductCoef(p, c, d, k, i) ==
  IF i > k THEN 0
  ELSE (CoefAt(p, c, i) * CoefAt(p, d, k - i)
          + ProductCoef(p, c, d, k, i + 1)) % p

\* The degree of a coefficient vector over F_p, 0 for the zero polynomial.
RECURSIVE MathDegree(_, _, _)
MathDegree(p, c, n) ==
  IF n = 0 THEN 0
  ELSE IF c[n] % p # 0 THEN n - 1
  ELSE MathDegree(p, c, n - 1)

\* a = q * d + r in F_p[x].
DivisionIdentity(p, a, d, q, r) ==
  \A k \in 0..(Len(a) + Len(q) + Len(d) + Len(r)) :
    CoefAt(p, a, k) = (ProductCoef(p, q, d, k, 0) + CoefAt(p, r, k)) % p

\* C9: the pair (q, r) that div(a, d) returns for a nonzero divisor d
\* satisfies a = q * d + r over F_p and degree(r) < degree(d).
C9_DivisionIdentity ==
  (pl.op = "div" /\ pl.res.ok) =>
    /\ DivisionIdentity(pl.p, pl.a, pl.d, pl.res.val.q, pl.res.val.r)
    /\ MathDegree(pl.p, pl.res.val.r, Len(pl.res.val.r))
         < MathDegree(pl.p, pl.d, Len(pl.d))

C9_Witness ==
  /\ pl.op = "div"
  /\ pl.res.ok
  /\ pl.p = 5
  /\ Len(pl.a) = 3
  /\ pl.a[3] # 0
  /\ Len(pl.d) = 2
  /\ pl.d[2] \in 2..4
  /\ ~is_zero(pl.res.val.r)
  /\ Len(pl.res.val.q) = 2

\* xs are pairwise distinct.
Distinct(xs) == \A i, j \in 1..Len(xs) : i # j => xs[i] # xs[j]

\* C10: for pairwise distinct field elements xs and field elements ys,
\* lagrange(xs, ys) returns a polynomial P with P.eval(xs[i]) = ys[i] for
\* every i.
C10_LagrangeReconstruction ==
  (pl.op = "lagrange" /\ Distinct(pl.xs)) =>
    /\ pl.res.ok
    /\ \A i \in 1..Len(pl.xs) : eval(pl.p, pl.res.val, pl.xs[i]) = pl.ys[i]

\* C19: after trim, and after every mul, the coefficient vector is empty or
\* its last coefficient is not zero; trim leaves the polynomial as it was.
C19_TrimRemovesZeros ==
  /\ (pl.op \in {"trim", "mul"}) =>
       (Len(pl.res.val) = 0 \/ pl.res.val[Len(pl.res.val)] # 0)
  /\ (pl.op = "trim") =>
       \A k \in 0..Len(pl.a) : CoefAt(pl.p, pl.res.val, k) = CoefAt(pl.p, pl.a, k)

\* The coefficients of c are canonical residues of F_p.
Residues(p, c) == \A i \in 1..Len(c) : Canonical(p, c[i])

\* C15: for polynomials a and d over F_p with d nonzero, a nonzero constant
\* included, div(a, d) terminates and returns a pair (q, r).
C15_DivisionTerminates ==
  (pl.op = "div" /\ Residues(pl.p, pl.a) /\ Residues(pl.p, pl.d)
     /\ ~is_zero(pl.d))
    => (pl.res # Diverges /\ pl.res.ok)

(***************************************************************************)
(* Claims about FRI.                                                       *)
(***************************************************************************)
\* C1: for every configuration and every polynomial of degree < N / rho,
\* prove on its evaluations over the coset and then verify on the same
\* channel complete with no failure of any kind.
C1_Completeness ==
  (fri.op = "session") =>
     /\ prover.state = "done" => prover.ok
     /\ verifier.state = "done" => verifier.ok

\* A session proved and verified without a failure.
Accepted ==
  /\ fri.op = "session"
  /\ prover.state = "done" /\ prover.ok
  /\ verifier.state = "done" /\ verifier.ok

\* C2: after an honest prove of a codeword c of length N, verify returns
\* exactly 2 * s pairs: for the j-th top index k the pairs (k mod N/2, y_a)
\* and (k mod N/2 + N/2, y_b); every index is below N and every y is c at
\* its index.
C2_VerifyReturnsOpenings ==
  Accepted =>
     LET half == fri.fri.domain_len \div 2
         s == fri.fri.colinearity_test_count
         c == fri.codeword
         out == verifier.val
     IN  /\ Len(out) = 2 * s
         /\ Len(prover.val) = s
         /\ \A j \in 1..s :
              LET k == prover.val[j] % half
              IN  /\ out[2 * j - 1] = <<k, c[k + 1]>>
                  /\ out[2 * j] = <<k + half, c[k + half + 1]>>
         /\ \A n \in 1..Len(out) :
              /\ out[n][1] < fri.fri.domain_len
              /\ out[n][2] = c[out[n][1] + 1]

\* An accepted session with two tests a round: four pairs are returned, and
\* the two values of each top index differ.
C2_Witness ==
  /\ Accepted
  /\ fri.fri.colinearity_test_count = 2
  /\ Len(verifier.val) = 4
  /\ verifier.val[1][2] # verifier.val[2][2]
  /\ verifier.val[3][2] # verifier.val[4][2]

\* C3: in a session the verifier derives the challenges of the prover: the
\* alpha of every fold round, the top indices, and the indices of every
\* query round.
C3_SameChallenges ==
  (fri.op = "session" /\ verifier.state = "done") =>
     /\ \A i \in 1..Len(prover.alphas) :
          i <= Len(verifier.alphas) => verifier.alphas[i] = prover.alphas[i]
     /\ (prover.top # <<>> /\ verifier.top # <<>>) =>
          verifier.top = prover.top
     /\ (prover.ok /\ verifier.top # <<>>) => verifier.top = prover.val
     /\ \A i \in 1..Len(verifier.rounds) :
          /\ i <= Len(prover.rounds)
          /\ verifier.rounds[i] = prover.rounds[i]
          /\ \A k \in 1..Len(verifier.top) :
               verifier.rounds[i][k]
                 = verifier.top[k] % (fri.fri.domain_len \div 2^i)
     /\ Accepted =>
          /\ Len(prover.alphas) = fri.fri.round_count - 1
          /\ Len(verifier.alphas) = fri.fri.round_count
          /\ Len(verifier.rounds) = fri.fri.round_count - 1
          /\ Len(prover.rounds) = fri.fri.round_count - 1

\* An accepted session of three rounds: two alphas were sampled to fold, and
\* the second query round has indices the first did not have.
C3_Witness ==
  /\ Accepted
  /\ fri.fri.round_count = 3
  /\ Len(prover.alphas) = 2
  /\ Len(verifier.rounds) = 2
  /\ verifier.rounds[2] # verifier.rounds[1]

\* The r for which N / 2^r > rho and 4 * s < N / 2^r.
RoundsThatHold(f) ==
  {r \in 0..(MaxLogLen + 1) :
     /\ shr(f.domain_len, r) > f.expansion_factor
     /\ 4 * f.colinearity_test_count < shr(f.domain_len, r)}

\* C11, as stated: round_count is the largest r such that N / 2^r > rho and
\* 4 * s < N / 2^r.
C11_RoundCountIsLargest ==
  (fri.op = "session") =>
     /\ RoundsThatHold(fri.fri) # {}
     /\ fri.fri.round_count \in RoundsThatHold(fri.fri)
     /\ \A r \in RoundsThatHold(fri.fri) : r <= fri.fri.round_count

\* C11, amended: round_count is the number of r such that N / 2^r > rho and
\* 4 * s < N / 2^r, which are 0, ..., round_count - 1: one more than the
\* largest of them, and 0 when there is none.
C11_RoundCountIsLeastFailing ==
  (fri.op = "session") =>
     RoundsThatHold(fri.fri) = 0..(fri.fri.round_count - 1)

\* A configuration of three rounds: N = 32, rho = 2, s = 1.
C11_Witness ==
  /\ fri.op = "session"
  /\ fri.fri.domain_len = 32
  /\ fri.fri.expansion_factor = 2
  /\ fri.fri.colinearity_test_count = 1
  /\ fri.fri.round_count = 3
  /\ RoundsThatHold(fri.fri) = {0, 1, 2}

\* C12: whenever prove fails, it has appended no message to the channel:
\* the log after the failed call is the log before it, that of the new
\* channel of the session.
C12_NoPartialProof ==
  (fri.op = "session" /\ prover.state = "done" /\ ~prover.ok) =>
     channel.log = ChannelNew(channel.key).log

\* The elements of a sequence of integers differ modulo m.
DistinctModulo(indices, m) ==
  \A j, k \in 1..Len(indices) :
    j # k => indices[j] % m # indices[k] % m

\* What C13 says of the indices sample_indices returns, and of the indices
\* of the query rounds of a session.
SampledWell ==
  /\ fri.res.ok
  /\ Len(fri.res.val) = fri.count
  /\ \A k \in 1..Len(fri.res.val) : fri.res.val[k] \in 0..(fri.size - 1)
  /\ DistinctModulo(fri.res.val, fri.reduced_size)

QueriedApart ==
  /\ \A i \in 1..Len(prover.rounds) :
       DistinctModulo(prover.rounds[i], shr(fri.fri.domain_len, i))
  /\ \A i \in 1..Len(verifier.rounds) :
       DistinctModulo(verifier.rounds[i], shr(fri.fri.domain_len, i))

\* C13, as stated: for count <= reduced_size, sample_indices returns count
\* indices below size whose residues modulo reduced_size differ; in a
\* session the indices of every query round differ.
C13_SampledIndicesDistinct ==
  /\ (fri.op = "sampled" /\ fri.count <= fri.reduced_size) => SampledWell
  /\ (fri.op = "session") => QueriedApart

\* C13, amended: the same for count <= reduced_size and count <= size.
C13_SampledIndicesDistinctOfEnough ==
  /\ (fri.op = "sampled" /\ fri.count <= fri.reduced_size
        /\ fri.count <= fri.size) => SampledWell
  /\ (fri.op = "session") => QueriedApart

\* Three indices sampled below 8 with residues modulo 4: the raw indices
\* are not all below 4, so the residues are what is kept apart.
C13_Witness ==
  /\ fri.op = "sampled"
  /\ fri.size = 8
  /\ fri.reduced_size = 4
  /\ fri.count = 3
  /\ fri.res.ok
  /\ Len(fri.res.val) = 3
  /\ \E k \in 1..3 : fri.res.val[k] >= 4

\* The codewords of the commit phase of the session.
SessionCodewords ==
  fri_commit(fri.fri, fri.codeword, ChannelNew(channel.key)).codewords

\* The messages of one query round on the codewords cur and next at the
\* indices ind: the triples, then the paths of a, b and c of each index.
RoundMessages(cur, next, ind) ==
  LET half == Len(cur) \div 2
  IN  [j \in 1..Len(ind) |->
         <<cur[ind[j] + 1], cur[ind[j] + half + 1], next[ind[j] + 1]>>]
      \o [n \in 1..(3 * Len(ind)) |->
            LET j == ((n - 1) \div 3) + 1
            IN  IF (n - 1) % 3 = 0 THEN open(ind[j], cur).val.path
                ELSE IF (n - 1) % 3 = 1
                  THEN open(ind[j] + half, cur).val.path
                ELSE open(ind[j], next).val.path]

\* The messages of the query rounds from round i on.
RECURSIVE QueryMessages(_, _, _)
QueryMessages(cws, rounds, i) ==
  IF i > Len(rounds) THEN <<>>
  ELSE RoundMessages(cws[i], cws[i + 1], rounds[i])
         \o QueryMessages(cws, rounds, i + 1)

\* The transcript of a proof: one root a round, the last codeword, and the
\* messages of the query rounds.
Transcript(cws, rounds) ==
  [i \in 1..Len(cws) |-> <<commit(cws[i]).val>>]
    \o <<cws[Len(cws)]>>
    \o QueryMessages(cws, rounds, 1)

\* C14: prove appends the roots, the last codeword and, for each query
\* round, the s triples followed by the 3 * s paths; a verify that succeeds
\* has pulled all of it: it never pulls past the end and leaves no message
\* unread.
C14_TranscriptOrder ==
  /\ (fri.op = "session" /\ prover.state = "done" /\ prover.ok) =>
       /\ Len(SessionCodewords) = fri.fri.round_count
       /\ Len(prover.rounds) = fri.fri.round_count - 1
       /\ \A i \in 1..Len(prover.rounds) :
            Len(prover.rounds[i]) = fri.fri.colinearity_test_count
       /\ channel.log = Transcript(SessionCodewords, prover.rounds)
  /\ Accepted =>
       /\ channel.cursor = Len(channel.log)
       /\ Len(channel.log)
            = fri.fri.round_count + 1
                + 4 * fri.fri.colinearity_test_count
                    * (fri.fri.round_count - 1)

\* An accepted session of two rounds and two tests a round: 2 roots, the
\* last codeword and one query round of 2 triples and 6 paths, all read.
C14_Witness ==
  /\ Accepted
  /\ fri.fri.round_count = 2
  /\ fri.fri.colinearity_test_count = 2
  /\ Len(channel.log) = 11
  /\ channel.cursor = 11
  /\ Len(channel.log[4]) = 3
  /\ Len(channel.log[5]) = 3
  /\ channel.log[6] = open(prover.rounds[1][1], fri.codeword).val.path

\* The value at x of the polynomial of the coefficients c from the i-th
\* on, c[i] + c[i + 1] * x + ..., in F_p.
RECURSIVE ValueAt(_, _, _, _)
ValueAt(p, c, x, i) ==
  IF i > Len(c) THEN 0 ELSE (c[i] + x * ValueAt(p, c, x, i + 1)) % p

\* f_e and f_o of f(x) = f_e(x^2) + x * f_o(x^2).
EvenPart(c) == [j \in 1..((Len(c) + 1) \div 2) |-> c[2 * j - 1]]

OddPart(c) == [j \in 1..(Len(c) \div 2) |-> c[2 * j]]

\* f_e + alpha * f_o, a polynomial of half as many coefficients.
FoldOf(p, c, alpha) ==
  [j \in 1..((Len(c) + 1) \div 2) |->
     (c[2 * j - 1] + alpha * CoefAt(p, c, 2 * j - 1)) % p]

\* The points offset^(2^i) * omega^(2^i * k), k < n, of fold round i.
RoundDomain(f, i, n) ==
  [k \in 1..n |->
     (modpow(f.offset, 2^i, f.field.p)
        * modpow(f.omega, 2^i * (k - 1), f.field.p)) % f.field.p]

\* The codeword c holds the values of the polynomial poly on the points dom.
IsEvaluation(p, c, poly, dom) ==
  /\ Len(c) = Len(dom)
  /\ \A k \in 1..Len(c) : c[k] = U(ValueAt(p, poly, dom[k], 1))

\* Fold round i takes the values c of poly on its points to next: half as
\* many values, the k-th being f_e(y) + alpha * f_o(y) at the square y of
\* the k-th point.
FoldedWell(p, c, next, poly, alpha, dom) ==
  /\ 2 * Len(next) = Len(c)
  /\ \A k \in 1..Len(next) :
       next[k] = U((ValueAt(p, EvenPart(poly), (dom[k] * dom[k]) % p, 1)
                      + alpha * ValueAt(p, OddPart(poly),
                                        (dom[k] * dom[k]) % p, 1)) % p)

\* FoldedWell of every fold round from round i on, the codeword of round i
\* being the values of poly.
RECURSIVE FoldsFrom(_, _, _, _, _)
FoldsFrom(f, cws, alphas, poly, i) ==
  IF i + 1 >= Len(cws) THEN TRUE
  ELSE IsEvaluation(f.field.p, cws[i + 1], poly,
                    RoundDomain(f, i, Len(cws[i + 1])))
         => /\ FoldedWell(f.field.p, cws[i + 1], cws[i + 2], poly,
                          alphas[i + 1], RoundDomain(f, i, Len(cws[i + 1])))
            /\ FoldsFrom(f, cws, alphas, FoldOf(f.field.p, poly,
                                                alphas[i + 1]), i + 1)

\* The commit phase of the session.
SessionCommit == fri_commit(fri.fri, fri.codeword, ChannelNew(channel.key))

\* C16: in every fold round i of a session, the codeword c being the values
\* of a polynomial f(x) = f_e(x^2) + x * f_o(x^2) on the points
\* offset^(2^i) * omega^(2^i * k), the next codeword has length |c| / 2 and
\* its k-th entry is f_e(y) + alpha_i * f_o(y) at the square y of the k-th
\* point: the values of f_e + alpha_i * f_o, of half the degree bound, on
\* the points of round i + 1.
C16_FoldCorrect ==
  (fri.op = "session") =>
     LET folded(c) ==
           /\ c.ok
           /\ Len(c.codewords) = Len(c.alphas) + 1
           /\ FoldsFrom(fri.fri, c.codewords, c.alphas, fri.poly, 0)
           /\ \A i \in 1..Len(c.codewords) :
                Len(c.codewords[i]) = shr(fri.fri.domain_len, i - 1)
     IN  folded(SessionCommit)

\* A session of three rounds on the values of x^5 + 1: both fold rounds
\* fold the values of a polynomial with an odd part, with an alpha that is
\* not zero, and the second folds what the first made of x^5 + 1.
C16_Witness ==
  /\ fri.op = "session"
  /\ prover.state = "done"
  /\ fri.fri.round_count = 3
  /\ fri.poly = <<1, 0, 0, 0, 0, 1>>
  /\ Len(prover.alphas) = 2
  /\ prover.alphas[1] # 0
  /\ prover.alphas[2] # 0
  /\ IsEvaluation(fri.fri.field.p, SessionCodewords[2],
                  FoldOf(fri.fri.field.p, fri.poly, prover.alphas[1]),
                  RoundDomain(fri.fri, 1, Len(SessionCodewords[2])))
  /\ SessionCodewords[3] # SessionCodewords[2]

\* The j-th triple of query round i (from 1) of the log and its three paths
\* are what verify accepts: the paths authenticate a at k and b at
\* k + N / 2^i under the root of round i and c at k under the root of the
\* next round, and (x_k, a), (x_(k + N / 2^i), b), (alpha_i, c) lie on a
\* line.
TripleAuthenticated(f, log, i, j, k) ==
  LET t == log[TripleAt(f, i, j)]
  IN  /\ verify(log[i][1], k, log[PathAt(f, i, j, 1)], t[1]).ok
      /\ verify(log[i][1], k + shr(f.domain_len, i),
                log[PathAt(f, i, j, 2)], t[2]).ok
      /\ verify(log[i + 1][1], k, log[PathAt(f, i, j, 3)], t[3]).ok

TripleColinear(f, log, i, j, k, alpha) ==
  LET t == log[TripleAt(f, i, j)]
      dom == RoundDomain(f, i - 1, shr(f.domain_len, i - 1))
  IN  Colinear(f.field.p,
               <<dom[k + 1], dom[k + shr(f.domain_len, i) + 1], alpha>>,
               <<t[1][1], t[2][1], t[3][1]>>)

\* C17: verify succeeds only if, for every query round i and every sampled
\* index k, the paths pulled authenticate the values (a, b, c) pulled at k
\* and k + N / 2^(i+1) under roots[i] and at k under roots[i+1], and the
\* three points are colinear; and a transcript that differs from that of
\* an honest proof in one value of one triple is rejected.
C17_AcceptedOnlyIfChecked ==
  /\ (fri.op \in {"session", "tampered"} /\ verifier.state = "done"
        /\ verifier.ok)
       => /\ Len(verifier.rounds) = fri.fri.round_count - 1
          /\ \A i \in 1..Len(verifier.rounds) :
               \A j \in 1..fri.fri.colinearity_test_count :
                 /\ TripleAuthenticated(fri.fri, channel.log, i, j,
                                        verifier.rounds[i][j])
                 /\ TripleColinear(fri.fri, channel.log, i, j,
                                   verifier.rounds[i][j], verifier.alphas[i])
  /\ (fri.op = "tampered" /\ verifier.state = "done") => ~verifier.ok

\* A transcript with the value a of a triple of the second query round
\* replaced by another representative of its residue: the points are still
\* colinear, and the path of a rejects it.
C17_Witness ==
  /\ fri.op = "tampered"
  /\ verifier.state = "done"
  /\ ~verifier.ok
  /\ verifier.err = "Invalid intermediate root"
  /\ fri.fri.round_count = 3
  /\ \E j \in 1..fri.fri.colinearity_test_count :
       channel.log[TripleAt(fri.fri, 2, j)][1][1] >= fri.fri.field.p

\* The omega of the last codeword, omega^(2^(r - 1)), and the length of the
\* last codeword, N / 2^(r - 1).
LastOmega(f) == modpow(f.omega, 2^(f.round_count - 1), f.field.p)

LastLen(f) == shr(f.domain_len, f.round_count - 1)

\* C18: in every configuration in which the order of omega^(2^(r - 1))
\* differs from the length of the last codeword, verify fails with the
\* omega order failure; verify passes the check only with the order being
\* exactly that length.
C18_OmegaOrderChecked ==
  (fri.op = "session" /\ prover.state = "done" /\ prover.ok
     /\ verifier.state = "done")
    => (verifier.err = "omega order incorrect"
          <=> ~HasOrder(LastOmega(fri.fri), LastLen(fri.fri),
                        fri.fri.field.p))

(***************************************************************************)
(* Spec: every subsystem.                                                  *)
(***************************************************************************)
Init ==
  \/ FieldInit
  \/ TreeInit
  \/ LongTreeInit
  \/ BindingInit
  \/ PolyInit
  \/ LagrangeInit
  \/ FriInit
  \/ OmegaInit
  \/ SampleInit

Next ==
  \/ FieldNext
  \/ TreeNext
  \/ LongTreeNext
  \/ BindingNext
  \/ PolyNext
  \/ LagrangeNext
  \/ FriNext
  \/ FriTamper
  \/ SampleIndices

Spec == Init /\ [][Next]_vars

=============================================================================
